---- MODULE Spec2Model ----
(***************************************************************************)
(* Model of the Van command/event bus: the type registry, the registration *)
(* checks, the recursive dependency resolver, the singleton lifecycle and  *)
(* the Invoke / Exec / Publish operations, as several threads use one bus. *)
(***************************************************************************)
EXTENDS Integers, Sequences, FiniteSets, TLC

\* ------------------------------------------------------------------------
\* Bounds of the model

\* caller threads sharing the bus
NumThreads == 2
\* top-level operations (Invoke, Exec, Publish) started in one behaviour
MaxOps == 2

\* registration calls of a startup phase
MaxRegs == 4

\* ------------------------------------------------------------------------
\* Program constants

MaxArgs == 16

\* the capacity of the pool's free list, and of each of its buffers
poolSize == 64
poolItemSize == 16

\* ------------------------------------------------------------------------
\* reflect.Type of the types the tests, benchmarks and examples use

typeContext == "context.Context"
typeVan == "*Van"
typeError == "error"

InterfaceTypes ==
    { typeContext, typeError, "GetIntService", "SetIntService", "UnknownService",
      "serviceA", "serviceB", "Counter" }

\* the fields of the struct types, in declaration order
StructFields ==
    [ Command |-> << [name |-> "Result", type |-> "int", exported |-> TRUE] >>,
      SumCommand |-> << [name |-> "A", type |-> "int", exported |-> TRUE],
                        [name |-> "B", type |-> "int", exported |-> TRUE],
                        [name |-> "Result", type |-> "int", exported |-> TRUE] >>,
      benchCommand |-> << [name |-> "val", type |-> "int", exported |-> FALSE] >>,
      IncrementCommand |-> << [name |-> "Value", type |-> "int", exported |-> TRUE] >>,
      Event |-> << [name |-> "Value", type |-> "int", exported |-> TRUE] >>,
      emptyStruct |-> << >>,
      dependencySet |-> << [name |-> "S", type |-> "SetIntService", exported |-> TRUE] >>,
      serviceSet |-> << [name |-> "S", type |-> "SetIntService", exported |-> TRUE],
                        [name |-> "C", type |-> "Counter", exported |-> TRUE] >>,
      unexportedSet |-> << [name |-> "s", type |-> "SetIntService", exported |-> FALSE] >>,
      DependencySet |-> << [name |-> "Bus", type |-> "*Van", exported |-> TRUE],
                           [name |-> "S", type |-> "SetIntService", exported |-> TRUE] >> ]

StructTypes == DOMAIN StructFields

\* pointer types and what they point to
PtrElem ==
    [ p \in { typeVan, "*Command", "*SumCommand", "*benchCommand",
              "*IncrementCommand", "*int" } |->
        CASE p = typeVan -> "Van"
          [] p = "*Command" -> "Command"
          [] p = "*SumCommand" -> "SumCommand"
          [] p = "*benchCommand" -> "benchCommand"
          [] p = "*IncrementCommand" -> "IncrementCommand"
          [] OTHER -> "int" ]

PtrTypes == DOMAIN PtrElem

\* reflect.Type.Kind()
Kind(t) ==
    CASE t \in InterfaceTypes -> "Interface"
      [] t \in StructTypes \cup {"Van"} -> "Struct"
      [] t \in PtrTypes -> "Ptr"
      [] t = "int" -> "Int"
      [] OTHER -> "Func"

Elem(t) == PtrElem[t]

isStructPtr(t) == Kind(t) = "Ptr" /\ Kind(Elem(t)) = "Struct"

\* reflect.VisibleFields
VisibleFields(t) == StructFields[t]

\* ------------------------------------------------------------------------
\* Errors: a chain of layers, outermost first; the empty chain is nil.
\* fmt.Errorf with %w puts a layer in front of the wrapped chain.

NoErr == << >>

Errorf(msg, arg) == << [msg |-> msg, arg |-> arg] >>

ErrorfW(msg, arg, err) == << [msg |-> msg, arg |-> arg] >> \o err

\* errors.Is: target is err itself or is reached by unwrapping err
ErrorsIs(err, target) ==
    /\ target # NoErr
    /\ \E k \in 0..Len(err) : SubSeq(err, k + 1, Len(err)) = target

\* the errors the registered functions return
providerError == Errorf("provider error", "")
handlerError == Errorf("handler error", "")

\* ------------------------------------------------------------------------
\* Values: [type, ref, data]. A pointer refers to a heap cell by ref; a
\* struct passed by value carries its fields in data; an instance built by
\* a provider is identified by ref, the serial number of the constructor run.

NilValue == [type |-> "nil", ref |-> 0, data |-> << >>]

Val(t, r, d) == [type |-> t, ref |-> r, data |-> d]

\* reflect.TypeOf
TypeOf(v) == v.type

\* ------------------------------------------------------------------------
\* The functions the tests, benchmarks and examples register: reflect.Type
\* of each (kind, in, out) and what its body does. outcomes lists what a
\* call of it can return; effect is what its body does besides returning.

Fn(in, out, effect, outcomes) ==
    [kind |-> "Func", in |-> in, out |-> out, effect |-> effect, outcomes |-> outcomes]

Funcs ==
    [ provideSetInt |-> Fn(<< >>, <<"SetIntService", typeError>>, "none", {"ok", "err"}),
      provideGetInt |-> Fn(<<typeVan, "SetIntService">>, <<"GetIntService", typeError>>,
                           "none", {"ok", "err"}),
      provideA |-> Fn(<< >>, <<"serviceA", typeError>>, "none", {"ok", "err"}),
      provideB |-> Fn(<<"serviceA">>, <<"serviceB", typeError>>, "none", {"ok"}),
      ProvideCounter |-> Fn(<< >>, <<"Counter", typeError>>, "none", {"ok", "err"}),
      handleGet |-> Fn(<<typeContext, "*Command", "GetIntService">>, <<typeError>>,
                       "none", {"ok", "err"}),
      handleA |-> Fn(<<typeContext, "*Command", "serviceA">>, <<typeError>>,
                     "none", {"ok"}),
      handleBench |-> Fn(<<typeContext, "*benchCommand", "serviceA", "serviceB">>,
                         <<typeError>>, "none", {"ok", "err"}),
      Sum |-> Fn(<<typeContext, "*SumCommand">>, <<typeError>>, "sum", {"ok"}),
      Increment |-> Fn(<<typeContext, "*IncrementCommand", "Counter", typeVan>>,
                       <<typeError>>, "publish", {"ok"}),
      listenerA |-> Fn(<<typeContext, "Event">>, << >>, "none", {"ok"}),
      HelloWorldPrinted |-> Fn(<<typeContext, "Event", "Counter">>, << >>, "none", {"ok"}),
      listenerSetInt |-> Fn(<<typeContext, "Event", "SetIntService">>, << >>,
                            "none", {"ok"}),
      provideSameType |-> Fn(<<"SetIntService">>, <<"SetIntService", typeError>>,
                             "none", {"ok"}),
      provideSameTypeSecond |-> Fn(<<"SetIntService", "GetIntService">>,
                                   <<"GetIntService", typeError>>, "none", {"ok"}),
      provideDeps |-> Fn(<<"dependencySet">>, <<"GetIntService", typeError>>,
                         "none", {"ok"}),
      provideCtx |-> Fn(<<typeContext>>, <<"GetIntService", typeError>>, "none", {"ok"}),
      provideSetIntCtx |-> Fn(<<typeContext>>, <<"SetIntService", typeError>>, "none", {"ok"}),
      provideSetIntDeps |-> Fn(<<"dependencySet">>, <<"SetIntService", typeError>>,
                               "none", {"ok"}),
      provideSetIntFromGet |-> Fn(<<"GetIntService">>, <<"SetIntService", typeError>>,
                                  "none", {"ok"}),
      provideInt |-> Fn(<<"int">>, <<"GetIntService", typeError>>, "none", {"ok"}),
      providePtr |-> Fn(<<"*Command">>, <<"GetIntService", typeError>>, "none", {"ok"}),
      provideUnexported |-> Fn(<<typeContext, "unexportedSet">>,
                               <<"GetIntService", typeError>>, "none", {"ok"}),
      provideNotInterface |-> Fn(<<typeContext, "Command">>,
                                 <<"GetIntService", typeError>>, "none", {"ok"}),
      handleDeps |-> Fn(<<typeContext, "*Command", "serviceSet">>, <<typeError>>,
                        "none", {"ok"}),
      handleBusDeps |-> Fn(<<typeContext, "*Command", "DependencySet">>, <<typeError>>,
                           "none", {"ok"}),
      handleCtxTwice |-> Fn(<<typeContext, "*Command", typeContext>>, <<typeError>>,
                            "none", {"ok"}),
      listenerBusDeps |-> Fn(<<typeContext, "Event", "DependencySet">>, << >>,
                             "none", {"ok"}),
      listenerWrites |-> Fn(<<typeContext, "Event">>, << >>, "write", {"ok"}),
      execServiceSet |-> Fn(<<"serviceSet">>, <<typeError>>, "none", {"ok", "err"}),
      execCtxSecond |-> Fn(<<"SetIntService", typeContext>>, <<typeError>>, "none", {"ok"}),
      execNoReturn |-> Fn(<< >>, << >>, "none", {"ok"}),
      execGet |-> Fn(<<"GetIntService">>, <<typeError>>, "none", {"ok"}),
      execCounter |-> Fn(<<"Counter">>, <<typeError>>, "none", {"ok"}),
      execDeps |-> Fn(<<"dependencySet">>, <<typeError>>, "none", {"ok"}),
      execUnknown |-> Fn(<<"UnknownService">>, <<typeError>>, "none", {"ok"}),
      notAFunction |-> [kind |-> "Struct", in |-> << >>, out |-> << >>,
                        effect |-> "none", outcomes |-> {"ok"}],
      \* the untyped nil: reflect.TypeOf(nil) is the nil Type
      nilFunc |-> [kind |-> "Nil", in |-> << >>, out |-> << >>,
                   effect |-> "none", outcomes |-> {"ok"}] ]

FuncNames == DOMAIN Funcs

\* reflect.Type of a function: NumIn, In(i), NumOut, Out(i), with Go's
\* indices, which start at 0
NumIn(f) == Len(Funcs[f].in)
In(f, i) == Funcs[f].in[i + 1]
NumOut(f) == Len(Funcs[f].out)
Out(f, i) == Funcs[f].out[i + 1]

Implements(t, iface) == t = iface

Min(S) == CHOOSE x \in S : \A y \in S : x <= y

\* the error of the first index of lo..hi-1 that has one (a loop that
\* returns at the first error), NoErr when none has
FirstError(lo, hi, errAt(_)) ==
    LET bad == { i \in lo..(hi - 1) : errAt(i) # NoErr }
    IN IF bad = {} THEN NoErr ELSE errAt(Min(bad))

\* ------------------------------------------------------------------------
\* Signature validation

\* a check that accepts the fields of every struct
validateDependencyStructAny(t) == NoErr

validateDependencyStruct(t) ==
    LET fs == VisibleFields(t)
        errAt(k) ==
            IF ~fs[k + 1].exported
            THEN Errorf("field must be exported", fs[k + 1].name)
            ELSE IF Kind(fs[k + 1].type) # "Interface"
            THEN Errorf("field must be an interface", fs[k + 1].name)
            ELSE NoErr
    IN FirstError(0, Len(fs), errAt)

validateDependencyArgs(f, start) ==
    LET errAt(i) ==
            CASE Kind(In(f, i)) = "Interface" -> NoErr
              [] Kind(In(f, i)) = "Ptr" ->
                    IF In(f, i) # typeVan
                    THEN Errorf("argument must be an interface, struct or *van.Van", In(f, i))
                    ELSE NoErr
              [] Kind(In(f, i)) = "Struct" ->
                    IF validateDependencyStruct(In(f, i)) # NoErr
                    THEN ErrorfW("error in dependency struct argument", In(f, i),
                                 validateDependencyStruct(In(f, i)))
                    ELSE NoErr
              [] OTHER -> Errorf("argument must be an interface, struct or *van.Van", In(f, i))
    IN FirstError(start, NumIn(f), errAt)

validateProviderSignature(f) ==
    CASE Funcs[f].kind # "Func" -> Errorf("provider must be a function", f)
      [] NumIn(f) > MaxArgs -> Errorf("provider must have at most MaxArgs arguments", f)
      [] NumOut(f) # 2 -> Errorf("provider must have two return values", f)
      [] Kind(Out(f, 0)) # "Interface" ->
            Errorf("provider's first return value must be an interface", Out(f, 0))
      [] ~Implements(Out(f, 1), typeError) ->
            Errorf("provider's second return value must be an error", Out(f, 1))
      [] OTHER -> validateDependencyArgs(f, 0)

validateHandlerSignature(f) ==
    CASE Funcs[f].kind # "Func" -> Errorf("handler must be a function", f)
      [] NumIn(f) < 2 -> Errorf("handler must have at least 2 arguments", f)
      [] NumIn(f) > MaxArgs -> Errorf("handler must have at most MaxArgs arguments", f)
      [] In(f, 0) # typeContext ->
            Errorf("handler's first argument must be context.Context", In(f, 0))
      [] ~isStructPtr(In(f, 1)) ->
            Errorf("handler's second argument must be a struct pointer", In(f, 1))
      [] NumOut(f) # 1 -> Errorf("handler must have one return value", f)
      [] ~Implements(Out(f, 0), typeError) ->
            Errorf("handler's return type must be error", Out(f, 0))
      [] OTHER -> validateDependencyArgs(f, 2)

validateListenerSignature(f) ==
    CASE Funcs[f].kind # "Func" -> Errorf("handler must be a function", f)
      [] NumIn(f) < 2 -> Errorf("handler must have at least 2 arguments", f)
      [] NumIn(f) > MaxArgs -> Errorf("handler must have at most MaxArgs arguments", f)
      [] In(f, 0) # typeContext ->
            Errorf("handler's first argument must be context.Context", In(f, 0))
      [] Kind(In(f, 1)) # "Struct" ->
            Errorf("handler's second argument must be a struct", In(f, 1))
      [] NumOut(f) # 0 -> Errorf("event handler should not have any return values", f)
      [] OTHER -> validateDependencyArgs(f, 2)

validateExecLambdaSignature(f) ==
    CASE Funcs[f].kind # "Func" -> Errorf("function must be a function", f)
      [] NumIn(f) > MaxArgs -> Errorf("function must have at most MaxArgs arguments", f)
      [] NumOut(f) # 1 -> Errorf("function must have one return value", f)
      [] ~Implements(Out(f, 0), typeError) ->
            Errorf("return value must be an error", Out(f, 0))
      [] OTHER -> validateDependencyArgs(f, 0)

\* ------------------------------------------------------------------------
\* The bus: providers (capability type -> providerOpts), handlers (command
\* type -> handler), listeners (event type -> listeners in registration
\* order). providerOpts.lock is the RWMutex: 0 when free, else the task
\* that holds it for writing.

NewBus == [providers |-> << >>, handlers |-> << >>, listeners |-> << >>]

\* a registration that builds a singleton at once
providerOptsEager(fn, singleton, takesContext) ==
    [fn |-> fn, instance |-> IF singleton THEN Val(Out(fn, 0), 1, << >>) ELSE NilValue,
     singleton |-> singleton, takesContext |-> takesContext, lock |-> 0]

providerOpts(fn, singleton, takesContext) ==
    [fn |-> fn, instance |-> NilValue, singleton |-> singleton,
     takesContext |-> takesContext, lock |-> 0]

\* m[k] = v in a Go map
MapSet(m, k, v) == [x \in DOMAIN m \cup {k} |-> IF x = k THEN v ELSE m[x]]

\* a check that takes every type for provided
validateDependencyAny(pr, t) == NoErr

RECURSIVE validateDependency(_, _)
validateDependency(pr, t) ==
    IF Kind(t) = "Struct"
    THEN LET fs == VisibleFields(t)
             errAt(k) == validateDependency(pr, fs[k + 1].type)
         IN FirstError(0, Len(fs), errAt)
    ELSE IF t \in DOMAIN pr \/ t = typeVan \/ t = typeContext
    THEN NoErr
    ELSE Errorf("no providers registered for type", t)

\* a registerProvider without the check for a dependency of the same type
registerProviderErrSameType(b, provider, singleton) ==
    IF validateProviderSignature(provider) # NoErr
    THEN validateProviderSignature(provider)
    ELSE LET errAt(i) ==
                LET inType == In(provider, i) IN
                CASE validateDependency(b.providers, inType) # NoErr ->
                        validateDependency(b.providers, inType)
                  [] inType = typeContext /\ singleton ->
                        Errorf("singleton providers cannot use Context as a dependency", "")
                  [] /\ inType \in DOMAIN b.providers
                     /\ b.providers[inType].takesContext
                     /\ singleton ->
                        Errorf("singleton providers cannot depend on providers that take Context", "")
                  [] OTHER -> NoErr
         IN FirstError(0, NumIn(provider), errAt)

\* registerProvider: the error it returns (NoErr when it registers)
registerProviderErr(b, provider, singleton) ==
    IF validateProviderSignature(provider) # NoErr
    THEN validateProviderSignature(provider)
    ELSE LET retType == Out(provider, 0)
             errAt(i) ==
                LET inType == In(provider, i) IN
                CASE inType = retType ->
                        Errorf("provider function has a dependency of the same type", "")
                  [] validateDependency(b.providers, inType) # NoErr ->
                        validateDependency(b.providers, inType)
                  [] inType = typeContext /\ singleton ->
                        Errorf("singleton providers cannot use Context as a dependency", "")
                  [] /\ inType \in DOMAIN b.providers
                     /\ b.providers[inType].takesContext
                     /\ singleton ->
                        Errorf("singleton providers cannot depend on providers that take Context", "")
                  [] OTHER -> NoErr
         IN FirstError(0, NumIn(provider), errAt)

\* registerProvider: the bus it leaves
registerProvider(b, provider, singleton) ==
    IF registerProviderErr(b, provider, singleton) # NoErr
    THEN b
    ELSE LET retType == Out(provider, 0)
             takesContext ==
                \E i \in 0..(NumIn(provider) - 1) :
                    \/ In(provider, i) = typeContext
                    \/ /\ In(provider, i) \in DOMAIN b.providers
                       /\ b.providers[In(provider, i)].takesContext
         IN [b EXCEPT !.providers =
                MapSet(b.providers, retType, providerOpts(provider, singleton, takesContext))]

registerHandlerErr(b, cmdType, handler) ==
    CASE Kind(cmdType) # "Struct" -> Errorf("cmd must be a struct", cmdType)
      [] validateHandlerSignature(handler) # NoErr -> validateHandlerSignature(handler)
      [] cmdType # Elem(In(handler, 1)) -> Errorf("command type mismatch", "")
      [] OTHER ->
            LET errAt(i) == validateDependency(b.providers, In(handler, i))
            IN FirstError(2, NumIn(handler), errAt)

registerHandler(b, cmdType, handler) ==
    IF registerHandlerErr(b, cmdType, handler) # NoErr
    THEN b
    ELSE [b EXCEPT !.handlers = MapSet(b.handlers, cmdType, handler)]

registerListenerErr(b, eventType, listener) ==
    CASE Kind(eventType) # "Struct" -> Errorf("event must be a struct", eventType)
      [] validateListenerSignature(listener) # NoErr -> validateListenerSignature(listener)
      [] eventType # In(listener, 1) -> Errorf("event type mismatch", "")
      [] OTHER ->
            LET errAt(i) == validateDependency(b.providers, In(listener, i))
            IN FirstError(2, NumIn(listener), errAt)

registerListener(b, eventType, listener) ==
    IF registerListenerErr(b, eventType, listener) # NoErr
    THEN b
    ELSE [b EXCEPT !.listeners =
            MapSet(b.listeners, eventType,
                   IF eventType \in DOMAIN b.listeners
                   THEN Append(b.listeners[eventType], listener)
                   ELSE <<listener>>)]

\* A registration call of the startup phase: Provide, ProvideSingleton,
\* Handle or Subscribe (with one listener)
Register(b, c) ==
    CASE c.call = "Provide" -> registerProvider(b, c.fn, FALSE)
      [] c.call = "ProvideSingleton" -> registerProvider(b, c.fn, TRUE)
      [] c.call = "Handle" -> registerHandler(b, c.type, c.fn)
      [] OTHER -> registerListener(b, c.type, c.fn)

RegisterErr(b, c) ==
    CASE c.call = "Provide" -> registerProviderErr(b, c.fn, FALSE)
      [] c.call = "ProvideSingleton" -> registerProviderErr(b, c.fn, TRUE)
      [] c.call = "Handle" -> registerHandlerErr(b, c.type, c.fn)
      [] OTHER -> registerListenerErr(b, c.type, c.fn)

RECURSIVE Startup(_, _)
Startup(b, calls) ==
    IF calls = << >> THEN b ELSE Startup(Register(b, Head(calls)), Tail(calls))

Call(call, type, fn) == [call |-> call, type |-> type, fn |-> fn]

\* The startup phases of the applications modelled: each is the sequence
\* of registration calls of a test, benchmark or example.
Setups ==
    << \* the counter example: a singleton, a handler that publishes, listeners
       << Call("ProvideSingleton", "", "ProvideCounter"),
          Call("Handle", "IncrementCommand", "Increment"),
          Call("Handle", "SumCommand", "Sum"),
          Call("Subscribe", "Event", "listenerA"),
          Call("Subscribe", "Event", "HelloWorldPrinted") >>,
       \* the benchmark: serviceB depends on serviceA, the handler on both
       << Call("Provide", "", "provideA"),
          Call("Provide", "", "provideB"),
          Call("Handle", "benchCommand", "handleBench"),
          Call("Handle", "Command", "handleA") >>,
       \* a singleton that depends on a regular provider
       << Call("Provide", "", "provideSetInt"),
          Call("ProvideSingleton", "", "provideGetInt"),
          Call("Handle", "Command", "handleGet") >> >>

\* a test's registrations: two listeners of Event, each with a dependency
\* of its own whose provider can fail
BlockingSetup ==
    << Call("Provide", "", "provideSetInt"),
       Call("ProvideSingleton", "", "ProvideCounter"),
       Call("Subscribe", "Event", "listenerSetInt"),
       Call("Subscribe", "Event", "HelloWorldPrinted") >>

\* applications that inject capability sets and contexts
InjectionSetups ==
    << \* a handler with a capability set of a regular and a singleton
       \* capability; a listener that assigns to its event, and another
       << Call("Provide", "", "provideSetInt"),
          Call("ProvideSingleton", "", "ProvideCounter"),
          Call("Handle", "Command", "handleDeps"),
          Call("Subscribe", "Event", "listenerWrites"),
          Call("Subscribe", "Event", "listenerA") >>,
       \* a handler with a second context parameter
       << Call("Provide", "", "provideSetInt"),
          Call("Handle", "Command", "handleCtxTwice") >>,
       \* a provider that takes the context
       << Call("Provide", "", "provideCtx"),
          Call("Handle", "Command", "handleGet") >> >>

\* the most listeners an application modelled subscribes
MaxFanOut ==
    LET n(s) == Cardinality({ j \in 1..Len(s) : s[j].call = "Subscribe" })
        all == { Setups[k] : k \in 1..Len(Setups) } \cup { BlockingSetup }
                    \cup { InjectionSetups[k] : k \in 1..Len(InjectionSetups) }
    IN CHOOSE m \in { n(s) : s \in all } : \A s \in all : n(s) <= m

\* ------------------------------------------------------------------------
\* State

VARIABLES
    providers,  \* Van.providers, with each provider's cached instance and lock
    handlers,   \* Van.handlers
    listeners,  \* Van.listeners
    wg,         \* Van.wg: the publications in flight
    heap,       \* the command objects the callers pass by pointer
    status,     \* per task: idle, running, returned, panicked, unborn, done
    stack,      \* per task: the frames of the calls in progress, innermost last
    ret,        \* per task: what the call that returned last has returned
    call,       \* per task: the operation in progress or last finished
    ops,        \* top-level operations started so far
    execs,      \* per capability type: constructor executions started
    fails,      \* per capability type: constructor executions that failed
    returned,   \* per capability type: the instances b.new has returned
    invoked,    \* per handler: Invoke calls that have returned
    pool,       \* the argPool: its free list and its two counters
    bufs,       \* the slices the pool has allocated: length and backing array
    local       \* per thread: the buffer it got from the pool and holds

vars == << providers, handlers, listeners, wg, heap, status, stack, ret, call,
           ops, execs, fails, returned, invoked, pool, bufs, local >>

poolVars == << pool, bufs, local >>

Threads == 1..NumThreads
\* a publication runs in a goroutine of its own, or in one per listener
Goroutines == (NumThreads + 1)..(NumThreads + MaxOps * MaxFanOut)
Tasks == Threads \cup Goroutines

CapTypes == InterfaceTypes \ {typeContext, typeError}

ZeroValue == [type |-> "invalid", ref |-> 0, data |-> << >>]
theBus == Val(typeVan, 0, << >>)
ctxOf(self) == Val(typeContext, self, << >>)

Frame(op, fn, cmd) ==
    [op |-> op, fn |-> fn, i |-> 0, args |-> << >>, cmd |-> cmd, pc |-> "entry"]

\* id numbers the operations in the order they start; log lists what the
\* operation has executed: provider calls, and calls and returns of the
\* function it dispatches to
NoCall == [id |-> 0, op |-> "", fn |-> "", cmd |-> NilValue, ctx |-> NilValue,
           result |-> NoErr, log |-> << >>]

NoRet == [val |-> NilValue, args |-> << >>, err |-> NoErr]

\* reflect.Value{}
emptyValue == NilValue

\* make([]reflect.Value, n): the backing array of n empty values
makeValues(n) == [i \in 1..n |-> emptyValue]

\* newPool(): an empty free list, nothing allocated
newPool == [freeList |-> << >>, itemSize |-> poolItemSize, allocated |-> 0, inuse |-> 0]

\* a thread that holds no buffer
NoBuf == [pc |-> "idle", bufptr |-> 0, n |-> 0, own |-> << >>, got |-> << >>]

InitPool ==
    /\ pool = newPool
    /\ bufs = << >>
    /\ local = [t \in Threads |-> NoBuf]

Event(ev, fn, out, args) == [ev |-> ev, fn |-> fn, out |-> out, args |-> args]

Top(self) == stack[self][Len(stack[self])]
Pop(st) == SubSeq(st, 1, Len(st) - 1)
SetTop(st, f) == [st EXCEPT ![Len(st)] = f]

Init ==
    /\ InitPool
    /\ \E k \in 1..Len(Setups) :
            LET b == Startup(NewBus, Setups[k]) IN
            /\ \A j \in 1..Len(Setups[k]) :
                    RegisterErr(Startup(NewBus, SubSeq(Setups[k], 1, j - 1)),
                                Setups[k][j]) = NoErr
            /\ providers = b.providers
            /\ handlers = b.handlers
            /\ listeners = b.listeners
    /\ wg = 0
    /\ heap = [r \in Threads |-> << >>]
    /\ status = [t \in Tasks |-> IF t \in Threads THEN "idle" ELSE "unborn"]
    /\ stack = [t \in Tasks |-> << >>]
    /\ ret = [t \in Tasks |-> NoRet]
    /\ call = [t \in Tasks |-> NoCall]
    /\ ops = 0
    /\ execs = [t \in CapTypes |-> 0]
    /\ fails = [t \in CapTypes |-> 0]
    /\ returned = [t \in CapTypes |-> {}]
    /\ invoked = [f \in FuncNames |-> 0]

\* ------------------------------------------------------------------------
\* resolve: the arguments of a function, parameter by parameter

\* which case of resolve's switch parameter i of f takes
ArgClass(f, i, cmd) ==
    CASE i = 0 /\ In(f, i) = typeContext -> "ctx"
      [] i = 1 /\ In(f, i) = TypeOf(cmd) -> "cmd"
      [] In(f, i) = typeVan -> "van"
      [] Kind(In(f, i)) = "Interface" -> "new"
      [] Kind(In(f, i)) = "Struct" -> "struct"
      [] OTHER -> "default"

\* a resolve that binds a copy of the object the payload points to
PayloadArgCopy(cmd) ==
    IF Kind(TypeOf(cmd)) = "Ptr"
    THEN Val(Elem(TypeOf(cmd)), 0, heap[cmd.ref])
    ELSE cmd

\* the value resolve binds to the payload parameter: the caller's own value
PayloadArg(cmd) == cmd

\* resolve's loop from parameter fr.i up to the first parameter that needs
\* a provider (or to the end): the context, the payload and the bus are
\* bound on the way, a parameter of the default case is left unset
BindSimple(fr, ctx) ==
    LET n == NumIn(fr.fn)
        stop == Min({ k \in fr.i..(n - 1) :
                        ArgClass(fr.fn, k, fr.cmd) \in {"new", "struct"} } \cup {n})
        bound(k) == CASE ArgClass(fr.fn, k, fr.cmd) = "ctx" -> ctx
                      [] ArgClass(fr.fn, k, fr.cmd) = "cmd" -> PayloadArg(fr.cmd)
                      [] ArgClass(fr.fn, k, fr.cmd) = "van" -> theBus
                      [] OTHER -> ZeroValue
    IN IF fr.i >= n
       THEN fr
       ELSE [fr EXCEPT !.i = stop,
                       !.args = [k \in 1..n |->
                                    IF fr.i < k /\ k <= stop
                                    THEN bound(k - 1) ELSE fr.args[k]]]

ResolveFrame(f, cmd) ==
    [Frame("resolve", f, cmd) EXCEPT !.args = [k \in 1..NumIn(f) |-> ZeroValue]]

\* the frame of the call resolve makes for parameter fr.i: b.new for an
\* interface, b.buildStruct for a struct
CalleeFrame(fr) ==
    Frame(IF ArgClass(fr.fn, fr.i, fr.cmd) = "new" THEN "new" ELSE "buildStruct",
          In(fr.fn, fr.i), NilValue)

\* resolve(ctx, cmd, f, args) is entered and runs up to its first call of
\* b.new or b.buildStruct: the frames it leaves on the stack, or, when no
\* parameter needs a provider, done and the arguments it has bound
EnterResolve(f, cmd, ctx) ==
    LET fr == BindSimple(ResolveFrame(f, cmd), ctx) IN
    IF fr.i >= NumIn(f)
    THEN [done |-> TRUE, args |-> fr.args, frames |-> << >>]
    ELSE [done |-> FALSE, args |-> << >>,
          frames |-> << [fr EXCEPT !.pc = "wait"], CalleeFrame(fr) >>]

\* what resolve has returned, when it is done at once
RetOf(r, e) == IF e.done THEN [NoRet EXCEPT !.args = e.args] ELSE r

\* a nil dereference: the task panics; the deferred Unlock of every
\* newSingleton it was in runs
Panic(self) ==
    /\ stack' = [stack EXCEPT ![self] = << >>]
    /\ status' = [status EXCEPT ![self] = "panicked"]
    /\ providers' = [t \in DOMAIN providers |->
                        IF providers[t].lock = self
                        THEN [providers[t] EXCEPT !.lock = 0]
                        ELSE providers[t]]

\* a resolve that goes on after an error
resolveFailedIgnored(r) == FALSE

\* resolve's check of what b.new or b.buildStruct returned: err != nil
resolveFailed(r) == r.err # NoErr

\* a resolution that passes context.Background() down instead
ctxArgBackground(self) == Val(typeContext, 0, << >>)

\* the ctx parameter of resolve, buildStruct, new and newSingleton: each
\* passes on the one it was called with, that of the operation of the task
ctxArg(self) == call[self].ctx

Resolve(self) ==
    /\ status[self] = "running"
    /\ Top(self).op = "resolve"
    /\ LET top == Top(self)
           failed == resolveFailed(ret[self])
           got == [top EXCEPT !.args[top.i + 1] = ret[self].val, !.i = top.i + 1]
           fr == BindSimple(got, ctxArg(self))
       IN IF failed
          THEN /\ stack' = [stack EXCEPT ![self] = Pop(@)]
               /\ ret' = [ret EXCEPT ![self] = [NoRet EXCEPT !.err = ret[self].err]]
          ELSE IF fr.i >= NumIn(fr.fn)
          THEN /\ stack' = [stack EXCEPT ![self] = Pop(@)]
               /\ ret' = [ret EXCEPT ![self] = [NoRet EXCEPT !.args = fr.args]]
          ELSE /\ stack' = [stack EXCEPT ![self] =
                    Append(SetTop(@, [fr EXCEPT !.pc = "wait"]), CalleeFrame(fr))]
               /\ ret' = ret
    /\ UNCHANGED << providers, handlers, listeners, wg, heap, status, call, ops,
                    execs, fails, returned, invoked >>
    /\ UNCHANGED poolVars

\* a buildStruct that returns the struct as reflect.New made it
structValueZero(t, insts) == Val(t, 0, [k \in 1..Len(insts) |-> ZeroValue])

\* value := reflect.New(structType).Elem() with every field Set to the
\* instance b.new returned for it
structValue(t, insts) == Val(t, 0, [k \in 1..Len(insts) |-> insts[k]])

\* buildStruct: a fresh struct, every field from b.new
BuildStruct(self) ==
    /\ status[self] = "running"
    /\ Top(self).op = "buildStruct"
    /\ LET top == Top(self)
           fields == VisibleFields(top.fn)
           failed == top.pc = "wait" /\ ret[self].err # NoErr
           fr == IF top.pc = "wait"
                 THEN [top EXCEPT !.args = Append(@, ret[self].val), !.i = top.i + 1]
                 ELSE top
       IN IF failed
          THEN /\ stack' = [stack EXCEPT ![self] = Pop(@)]
               /\ ret' = [ret EXCEPT ![self] = [NoRet EXCEPT !.err = ret[self].err]]
          ELSE IF fr.i >= Len(fields)
          THEN /\ stack' = [stack EXCEPT ![self] = Pop(@)]
               /\ ret' = [ret EXCEPT ![self] =
                    [NoRet EXCEPT !.val = structValue(top.fn, fr.args)]]
          ELSE /\ stack' = [stack EXCEPT ![self] =
                    Append(SetTop(@, [fr EXCEPT !.pc = "wait"]),
                           Frame("new", fields[fr.i + 1].type, NilValue))]
               /\ ret' = ret
    /\ UNCHANGED << providers, handlers, listeners, wg, heap, status, call, ops,
                    execs, fails, returned, invoked >>
    /\ UNCHANGED poolVars

\* ------------------------------------------------------------------------
\* new / newSingleton: an instance of a capability type

Log(self, e) == [call EXCEPT ![self].log = Append(@, e)]

\* provider.call is entered: the constructor starts to execute; the frame
\* keeps the serial number of this execution
BeginCall(fr, args, t) == [fr EXCEPT !.pc = "incall", !.args = args, !.i = execs[t] + 1]

\* the wrapped error new and newSingleton return when the provider failed
wrapProviderError(t, err) == ErrorfW("failed to resolve dependency", t, err)

\* a newSingleton without the second check
alreadyBuiltUnchecked(p) == FALSE

\* newSingleton's check under the write lock: another caller has built it
alreadyBuilt(p) == p.instance # NilValue

\* a newSingleton that fills the slot whatever the provider returned
afterCallAlwaysStored(p, inst, err) ==
    [p EXCEPT !.instance = IF err # NoErr THEN ZeroValue ELSE inst, !.lock = 0]

\* a newSingleton that, having built the instance, puts a regular entry
\* in the registry's place for the type
afterCallReplaced(p, inst, err) ==
    IF err # NoErr
    THEN [p EXCEPT !.lock = 0]
    ELSE [p EXCEPT !.instance = inst, !.lock = 0, !.singleton = FALSE]

\* newSingleton's exit after provider.call: the instance is stored when the
\* provider returned no error, and the deferred Unlock runs
afterCall(p, inst, err) ==
    IF err # NoErr
    THEN [p EXCEPT !.lock = 0]
    ELSE [p EXCEPT !.instance = inst, !.lock = 0]

\* a new that caches what every provider returns
isSingletonAlways(p) == TRUE

\* new takes the singleton path
isSingleton(p) == p.singleton

New(self) ==
    /\ status[self] = "running"
    /\ Top(self).op = "new"
    /\ Top(self).pc \in {"entry", "resolved"}
    /\ LET top == Top(self)
           t == top.fn
       IN IF t \notin DOMAIN providers
          THEN \* b.providers[t] is nil: provider.singleton dereferences it
               /\ Panic(self)
               /\ call' = Log(self, Event("panic", t, "", << >>))
               /\ UNCHANGED << wg, ret, execs, returned >>
          ELSE LET p == providers[t] IN
               IF isSingleton(p)
               THEN \* RLock .. RUnlock: not while a writer holds the lock
                    /\ p.lock = 0
                    /\ IF p.instance = NilValue
                       THEN /\ stack' = [stack EXCEPT ![self] =
                                    SetTop(@, [top EXCEPT !.op = "newSingleton", !.pc = "lock"])]
                            /\ UNCHANGED << ret, returned >>
                       ELSE /\ stack' = [stack EXCEPT ![self] = Pop(@)]
                            /\ ret' = [ret EXCEPT ![self] = [NoRet EXCEPT !.val = p.instance]]
                            /\ returned' = [returned EXCEPT ![t] = @ \cup {p.instance.ref}]
                    /\ UNCHANGED << providers, wg, status, call, execs >>
               ELSE IF top.pc = "entry" /\ NumIn(p.fn) > MaxArgs
               THEN /\ stack' = [stack EXCEPT ![self] = Pop(@)]
                    /\ ret' = [ret EXCEPT ![self] =
                            [NoRet EXCEPT !.err = Errorf("too many dependencies for provider", p.fn)]]
                    /\ UNCHANGED << providers, wg, status, call, execs, returned >>
               ELSE IF top.pc = "entry" /\ NumIn(p.fn) > 0
               THEN LET e == EnterResolve(p.fn, NilValue, ctxArg(self)) IN
                    /\ stack' = [stack EXCEPT ![self] =
                            SetTop(@, [top EXCEPT !.pc = "resolved"]) \o e.frames]
                    /\ ret' = [ret EXCEPT ![self] = RetOf(@, e)]
                    /\ UNCHANGED << providers, wg, status, call, execs, returned >>
               ELSE IF top.pc = "resolved" /\ ret[self].err # NoErr
               THEN /\ stack' = [stack EXCEPT ![self] = Pop(@)]
                    /\ ret' = [ret EXCEPT ![self] = [NoRet EXCEPT !.err = ret[self].err]]
                    /\ UNCHANGED << providers, wg, status, call, execs, returned >>
               ELSE /\ stack' = [stack EXCEPT ![self] =
                            SetTop(@, BeginCall(top,
                                IF top.pc = "resolved" THEN ret[self].args ELSE << >>, t))]
                    /\ execs' = [execs EXCEPT ![t] = @ + 1]
                    /\ UNCHANGED << providers, wg, status, ret, call, returned >>
    /\ UNCHANGED << handlers, listeners, heap, ops, fails, invoked >>
    /\ UNCHANGED poolVars

\* one lock for the whole bus: taken when no provider's lock is held
lockFreeGlobal(t) == \A u \in DOMAIN providers : providers[u].lock = 0

\* a lock that excludes nobody
lockFreeAlways(t) == TRUE

\* provider.Lock() of the provider of type t can be taken: the RWMutex is
\* the one embedded in this provider's providerOpts
lockFree(t) == providers[t].lock = 0

NewSingleton(self) ==
    /\ status[self] = "running"
    /\ Top(self).op = "newSingleton"
    /\ Top(self).pc \in {"lock", "resolved"}
    /\ LET top == Top(self)
           t == top.fn
           p == providers[t]
       IN IF top.pc = "lock"
          THEN \* provider.Lock()
               /\ lockFree(t)
               /\ IF alreadyBuilt(p)
                  THEN /\ stack' = [stack EXCEPT ![self] = Pop(@)]
                       /\ ret' = [ret EXCEPT ![self] = [NoRet EXCEPT !.val = p.instance]]
                       /\ returned' = [returned EXCEPT ![t] = @ \cup {p.instance.ref}]
                       /\ UNCHANGED << providers, execs >>
                  ELSE IF NumIn(p.fn) > MaxArgs
                  THEN /\ stack' = [stack EXCEPT ![self] = Pop(@)]
                       /\ ret' = [ret EXCEPT ![self] =
                            [NoRet EXCEPT !.err = Errorf("too many dependencies for provider", p.fn)]]
                       /\ UNCHANGED << providers, execs, returned >>
                  ELSE IF NumIn(p.fn) > 0
                  THEN LET e == EnterResolve(p.fn, NilValue, ctxArg(self)) IN
                       /\ providers' = [providers EXCEPT ![t].lock = self]
                       /\ stack' = [stack EXCEPT ![self] =
                            SetTop(@, [top EXCEPT !.pc = "resolved"]) \o e.frames]
                       /\ ret' = [ret EXCEPT ![self] = RetOf(@, e)]
                       /\ UNCHANGED << execs, returned >>
                  ELSE /\ providers' = [providers EXCEPT ![t].lock = self]
                       /\ stack' = [stack EXCEPT ![self] = SetTop(@, BeginCall(top, << >>, t))]
                       /\ execs' = [execs EXCEPT ![t] = @ + 1]
                       /\ UNCHANGED << ret, returned >>
          ELSE IF ret[self].err # NoErr
          THEN /\ providers' = [providers EXCEPT ![t].lock = 0]
               /\ stack' = [stack EXCEPT ![self] = Pop(@)]
               /\ ret' = [ret EXCEPT ![self] = [NoRet EXCEPT !.err = ret[self].err]]
               /\ UNCHANGED << execs, returned >>
          ELSE /\ stack' = [stack EXCEPT ![self] = SetTop(@, BeginCall(top, ret[self].args, t))]
               /\ execs' = [execs EXCEPT ![t] = @ + 1]
               /\ UNCHANGED << providers, ret, returned >>
    /\ UNCHANGED << handlers, listeners, wg, heap, status, call, ops, fails, invoked >>
    /\ UNCHANGED poolVars

\* provider.call returns, and new or newSingleton returns with it
ProviderReturn(self) ==
    /\ status[self] = "running"
    /\ Top(self).op \in {"new", "newSingleton"}
    /\ Top(self).pc = "incall"
    /\ \E out \in Funcs[providers[Top(self).fn].fn].outcomes :
        LET top == Top(self)
            t == top.fn
            err == IF out = "err" THEN providerError ELSE NoErr
            inst == IF out = "err" THEN NilValue ELSE Val(t, top.i, << >>)
        IN /\ stack' = [stack EXCEPT ![self] = Pop(@)]
           /\ ret' = [ret EXCEPT ![self] =
                    IF err # NoErr
                    THEN [NoRet EXCEPT !.err = wrapProviderError(t, err)]
                    ELSE [NoRet EXCEPT !.val = inst]]
           /\ providers' = IF top.op = "newSingleton"
                           THEN [providers EXCEPT ![t] = afterCall(@, inst, err)]
                           ELSE providers
           /\ fails' = IF err # NoErr THEN [fails EXCEPT ![t] = @ + 1] ELSE fails
           /\ returned' = IF err # NoErr THEN returned
                          ELSE [returned EXCEPT ![t] = @ \cup {inst.ref}]
           /\ call' = Log(self, Event("provider", t, out, top.args))
    /\ UNCHANGED << handlers, listeners, wg, heap, status, ops, execs, invoked >>
    /\ UNCHANGED poolVars

\* ------------------------------------------------------------------------
\* Invoke, Exec, Publish

\* the reflect.Value a handler returns, and toError of it
errorValue(err) == Val(typeError, 0, err)
IsNil(v) == v.data = << >>
\* a toError that makes an error of its own
toErrorReplaced(v) == IF IsNil(v) THEN NoErr ELSE Errorf("handler failed", "")

toError(v) == IF IsNil(v) THEN NoErr ELSE v.data

\* a lookup that disregards the payload's type
lookupHandlerAny(cmdType) == handlers[CHOOSE c \in DOMAIN handlers : TRUE]

\* the handler Invoke looks up for the payload's struct type
lookupHandler(cmdType) == handlers[cmdType]

\* the error Invoke returns before it resolves anything, NoErr when it goes on
invokeError(cmd) ==
    CASE Kind(TypeOf(cmd)) # "Ptr" -> Errorf("cmd must be a pointer to a struct", "")
      [] Kind(Elem(TypeOf(cmd))) # "Struct" -> Errorf("cmd must be a pointer to a struct", "")
      [] Elem(TypeOf(cmd)) \notin DOMAIN handlers ->
            Errorf("no handlers found for type", Elem(TypeOf(cmd)))
      [] NumIn(lookupHandler(Elem(TypeOf(cmd)))) > MaxArgs ->
            Errorf("too many dependencies for handler", lookupHandler(Elem(TypeOf(cmd))))
      [] OTHER -> NoErr

\* an Invoke that does not check the result of the lookup: the nil handler
\* is dereferenced
invokeEntryNoLookupCheck(cmd) ==
    IF cmd = NilValue \/ (isStructPtr(TypeOf(cmd)) /\ Elem(TypeOf(cmd)) \notin DOMAIN handlers)
    THEN [kind |-> "panic", err |-> NoErr]
    ELSE IF invokeError(cmd) # NoErr
    THEN [kind |-> "return", err |-> invokeError(cmd)]
    ELSE [kind |-> "resolve", err |-> NoErr]

\* how Invoke goes up to resolve: it panics, returns an error, or resolves
\* the handler's arguments. reflect.TypeOf(nil) is nil, and cmdType.Kind()
\* dereferences it.
invokeEntry(cmd) ==
    IF cmd = NilValue
    THEN [kind |-> "panic", err |-> NoErr]
    ELSE IF invokeError(cmd) # NoErr
    THEN [kind |-> "return", err |-> invokeError(cmd)]
    ELSE [kind |-> "resolve", err |-> NoErr]

\* the error Exec returns before it resolves anything
execError(fn) ==
    CASE validateExecLambdaSignature(fn) # NoErr -> validateExecLambdaSignature(fn)
      [] FirstError(0, NumIn(fn), LAMBDA i : validateDependency(providers, In(fn, i))) # NoErr ->
            FirstError(0, NumIn(fn), LAMBDA i : validateDependency(providers, In(fn, i)))
      [] NumIn(fn) > MaxArgs -> Errorf("too many dependencies for function", fn)
      [] OTHER -> NoErr

\* a Publish that takes an event nobody listens to for an error
publishErrorUnheard(event) ==
    IF Kind(TypeOf(event)) # "Struct"
    THEN Errorf("event must be a a struct", TypeOf(event))
    ELSE IF TypeOf(event) \notin DOMAIN listeners
    THEN Errorf("no listeners registered", TypeOf(event))
    ELSE NoErr

\* the error Publish returns
publishError(event) ==
    IF Kind(TypeOf(event)) # "Struct"
    THEN Errorf("event must be a a struct", TypeOf(event))
    ELSE NoErr

\* the payloads thread self passes to Invoke, with the object a pointer
\* payload points to: pointers to structs, a struct by value, a pointer to
\* an int, and nil
InvokePayloads(self) ==
    { [val |-> Val("*Command", self, << >>), obj |-> <<0>>],
      [val |-> Val("*SumCommand", self, << >>), obj |-> <<1, 2, 0>>],
      [val |-> Val("*benchCommand", self, << >>), obj |-> <<1>>],
      [val |-> Val("*IncrementCommand", self, << >>), obj |-> <<0>>],
      [val |-> Val("Command", 0, <<0>>), obj |-> << >>],
      [val |-> Val("*int", self, << >>), obj |-> <<1>>],
      [val |-> NilValue, obj |-> << >>] }

ExecFuncs == {"execCounter", "execDeps", "execUnknown"}

PublishPayloads(self) ==
    { Val("Event", 0, <<1>>), Val("*Command", self, << >>) }

\* Thread self may start an operation. The threads are interchangeable, so
\* of the behaviours that differ only in which thread is which, the model
\* keeps those in which the threads make their first calls in order.
CanStart(self) ==
    /\ self \in Threads
    /\ status[self] \in {"idle", "returned"}
    /\ ops < MaxOps
    /\ \A t \in Threads : t < self => status[t] # "idle"

NewCall(self, op, fn, cmd) ==
    [id |-> ops + 1, op |-> op, fn |-> fn, cmd |-> cmd, ctx |-> ctxOf(self),
     result |-> NoErr, log |-> << >>]

\* the goroutine the next go statement starts
NextGoroutine == Min({ g \in Goroutines : status[g] = "unborn" })

\* an Invoke that hands the handler to a new goroutine
handlerTaskSpawned(self) ==
    IF \E g \in Goroutines : status[g] = "unborn" THEN NextGoroutine ELSE self

\* the task that runs the handler Invoke calls: the caller itself
handlerTask(self) == self

StartInvoke(self, p) ==
    /\ CanStart(self)
    /\ ops' = ops + 1
    /\ heap' = [heap EXCEPT ![self] = p.obj]
    /\ IF invokeEntry(p.val).kind = "panic"
       THEN /\ status' = [status EXCEPT ![self] = "panicked"]
            /\ call' = [call EXCEPT ![self] = NewCall(self, "Invoke", "", p.val)]
            /\ UNCHANGED << stack, ret >>
       ELSE IF invokeEntry(p.val).kind = "return"
       THEN /\ status' = [status EXCEPT ![self] = "returned"]
            /\ call' = [call EXCEPT ![self] =
                    [NewCall(self, "Invoke", "", p.val) EXCEPT !.result = invokeEntry(p.val).err]]
            /\ UNCHANGED << stack, ret >>
       ELSE LET h == lookupHandler(Elem(TypeOf(p.val)))
                e == EnterResolve(h, p.val, ctxOf(self))
            IN
            /\ status' = [status EXCEPT ![self] = "running"]
            /\ call' = [call EXCEPT ![self] = NewCall(self, "Invoke", h, p.val)]
            /\ stack' = [stack EXCEPT ![self] =
                    << [Frame("Invoke", h, p.val) EXCEPT !.pc = "resolved"] >> \o e.frames]
            /\ ret' = [ret EXCEPT ![self] = RetOf(@, e)]
    /\ UNCHANGED << providers, handlers, listeners, wg, execs, fails, returned, invoked >>
    /\ UNCHANGED poolVars

StartExec(self, fn) ==
    /\ CanStart(self)
    /\ ops' = ops + 1
    /\ IF Funcs[fn].kind = "Nil"
       THEN \* funcType is nil and funcType.Kind() dereferences it
            /\ status' = [status EXCEPT ![self] = "panicked"]
            /\ call' = [call EXCEPT ![self] = NewCall(self, "Exec", fn, NilValue)]
            /\ UNCHANGED << stack, ret >>
       ELSE \E err \in { execError(fn) } :
            IF err # NoErr
            THEN /\ status' = [status EXCEPT ![self] = "returned"]
                 /\ call' = [call EXCEPT ![self] =
                        [NewCall(self, "Exec", fn, NilValue) EXCEPT !.result = err]]
                 /\ UNCHANGED << stack, ret >>
            ELSE \E e \in { EnterResolve(fn, NilValue, ctxOf(self)) } :
                 /\ status' = [status EXCEPT ![self] = "running"]
                 /\ call' = [call EXCEPT ![self] = NewCall(self, "Exec", fn, NilValue)]
                 /\ stack' = [stack EXCEPT ![self] =
                        << [Frame("Exec", fn, NilValue) EXCEPT !.pc = "resolved"] >> \o e.frames]
                 /\ ret' = [ret EXCEPT ![self] = RetOf(@, e)]
    /\ UNCHANGED << providers, handlers, listeners, wg, heap, execs, fails, returned, invoked >>
    /\ UNCHANGED poolVars

\* go func() { defer b.wg.Done(); b.processEvent(ctx, event) }() in goroutine g
GoProcessEvent(st, g, event) ==
    [st EXCEPT ![g] = << Frame("processEvent", TypeOf(event), event) >>]

StartPublish(self, event) ==
    /\ CanStart(self)
    /\ ops' = ops + 1
    /\ UNCHANGED ret
    /\ IF publishError(event) # NoErr
       THEN /\ status' = [status EXCEPT ![self] = "returned"]
            /\ call' = [call EXCEPT ![self] =
                    [NewCall(self, "Publish", "", event) EXCEPT !.result = publishError(event)]]
            /\ UNCHANGED << stack, wg >>
       ELSE LET g == NextGoroutine IN
            /\ wg' = wg + 1
            /\ status' = [status EXCEPT ![self] = "returned", ![g] = "running"]
            /\ call' = [call EXCEPT ![self] = NewCall(self, "Publish", "", event),
                                    ![g] = NewCall(self, "processEvent", "", event)]
            /\ stack' = GoProcessEvent(stack, g, event)
    /\ UNCHANGED << providers, handlers, listeners, heap, execs, fails, returned, invoked >>
    /\ UNCHANGED poolVars

\* Invoke and Exec after resolve: return its error, or call the function
CallHandler(self) ==
    /\ status[self] = "running"
    /\ Top(self).op \in {"Invoke", "Exec"}
    /\ Top(self).pc = "resolved"
    /\ LET top == Top(self)
           runner == handlerTask(self)
           fr == [top EXCEPT !.pc = "incall", !.args = ret[self].args]
       IN IF ret[self].err # NoErr
          THEN /\ stack' = [stack EXCEPT ![self] = << >>]
               /\ status' = [status EXCEPT ![self] = "returned"]
               /\ call' = [call EXCEPT ![self].result = ret[self].err]
               /\ invoked' = IF top.op = "Invoke"
                             THEN [invoked EXCEPT ![top.fn] = @ + 1] ELSE invoked
          ELSE IF runner = self
          THEN /\ stack' = [stack EXCEPT ![self] = SetTop(@, fr)]
               /\ call' = Log(self, Event("call", top.fn, "", fr.args))
               /\ UNCHANGED << status, invoked >>
          ELSE /\ stack' = [stack EXCEPT ![self] = << >>, ![runner] = << fr >>]
               /\ status' = [status EXCEPT ![self] = "returned", ![runner] = "running"]
               /\ call' = [call EXCEPT ![runner] =
                            [call[self] EXCEPT !.log = << Event("call", top.fn, "", fr.args) >>]]
               /\ invoked' = IF top.op = "Invoke"
                             THEN [invoked EXCEPT ![top.fn] = @ + 1] ELSE invoked
    /\ ret' = [ret EXCEPT ![self] = NoRet]
    /\ UNCHANGED << providers, handlers, listeners, wg, heap, ops, execs, fails, returned >>
    /\ UNCHANGED poolVars

\* what the body of handler f writes to the payload it received
handlerWrites(f, payload) ==
    IF Funcs[f].effect = "sum" /\ Kind(payload.type) = "Ptr"
    THEN [heap EXCEPT ![payload.ref][3] = heap[payload.ref][1] + heap[payload.ref][2]]
    ELSE heap

\* the function Invoke or Exec called returns
HandlerReturn(self) ==
    /\ status[self] = "running"
    /\ Top(self).op \in {"Invoke", "Exec"}
    /\ Top(self).pc = "incall"
    /\ \E out \in Funcs[Top(self).fn].outcomes :
        LET top == Top(self)
            v == errorValue(IF out = "err" THEN handlerError ELSE NoErr)
            publishes == Funcs[top.fn].effect = "publish"
            g == NextGoroutine
            done == IF self \in Threads THEN "returned" ELSE "done"
            logged == [call[self] EXCEPT !.log = Append(@, Event("return", top.fn, out, << >>)),
                                         !.result = toError(v)]
        IN /\ heap' = IF top.op = "Invoke" THEN handlerWrites(top.fn, top.args[2]) ELSE heap
           /\ stack' = IF publishes
                       THEN GoProcessEvent([stack EXCEPT ![self] = << >>], g, Val("Event", 0, <<1>>))
                       ELSE [stack EXCEPT ![self] = << >>]
           /\ status' = IF publishes
                        THEN [status EXCEPT ![self] = done, ![g] = "running"]
                        ELSE [status EXCEPT ![self] = done]
           /\ wg' = IF publishes THEN wg + 1 ELSE wg
           /\ call' = IF publishes
                      THEN [call EXCEPT ![self] = logged,
                                        ![g] = [NewCall(self, "processEvent", "", Val("Event", 0, <<1>>))
                                                    EXCEPT !.ctx = call[self].ctx,
                                                           !.id = call[self].id]]
                      ELSE [call EXCEPT ![self] = logged]
           /\ invoked' = IF top.op = "Invoke" /\ self \in Threads
                         THEN [invoked EXCEPT ![top.fn] = @ + 1] ELSE invoked
    /\ UNCHANGED << providers, handlers, listeners, ret, ops, execs, fails, returned >>
    /\ UNCHANGED poolVars

\* a goroutine that ends without telling the WaitGroup
wgDoneMissing(n) == n

\* defer b.wg.Done()
wgDone(n) == n - 1

\* the first listener from index i on that processEvent does not skip for
\* having too many parameters; Len(ls) when there is none
NextListener(ls, i) ==
    LET ok == { j \in i..(Len(ls) - 1) : NumIn(ls[j + 1]) <= MaxArgs }
    IN IF ok = {} THEN Len(ls) ELSE Min(ok)

\* processEvent's loop from listener i: it resolves the listener's
\* arguments, up to the first provider they need, and calls the listener
\* when they need none; after the last listener processEvent returns and
\* the deferred wg.Done() runs. lg is the log of the task so far.
EventLoop(self, top, i, lg) ==
    \E ls \in { IF top.fn \in DOMAIN listeners THEN listeners[top.fn] ELSE << >> } :
    \E j \in { NextListener(ls, i) } :
       IF j >= Len(ls)
       THEN /\ stack' = [stack EXCEPT ![self] = << >>]
            /\ status' = [status EXCEPT ![self] = "done"]
            /\ wg' = wgDone(wg)
            /\ call' = [call EXCEPT ![self].log = lg]
       ELSE \E e \in { EnterResolve(ls[j + 1], top.cmd, call[self].ctx) } :
            /\ UNCHANGED << status, wg >>
            /\ IF e.done
               THEN /\ stack' = [stack EXCEPT ![self] =
                            SetTop(@, [top EXCEPT !.i = j, !.pc = "incall", !.args = e.args])]
                    /\ call' = [call EXCEPT ![self].log =
                            Append(lg, Event("call", ls[j + 1], "", e.args))]
               ELSE /\ stack' = [stack EXCEPT ![self] =
                            SetTop(@, [top EXCEPT !.i = j, !.pc = "resolved"]) \o e.frames]
                    /\ call' = [call EXCEPT ![self].log = lg]

\* processEvent: the goroutine starts, or resolve has returned to it
ProcessEvent(self) ==
    /\ status[self] = "running"
    /\ Top(self).op = "processEvent"
    /\ Top(self).pc \in {"entry", "resolved"}
    /\ LET top == Top(self)
           l == listeners[top.fn][top.i + 1]
       IN IF top.pc = "entry"
          THEN EventLoop(self, top, 0, call[self].log)
          ELSE IF ret[self].err # NoErr
          THEN \* logged, and the loop continues with the next listener
               EventLoop(self, top, top.i + 1,
                         Append(call[self].log, Event("skipped", l, "", << >>)))
          ELSE /\ stack' = [stack EXCEPT ![self] =
                        SetTop(@, [top EXCEPT !.pc = "incall", !.args = ret[self].args])]
               /\ call' = Log(self, Event("call", l, "", ret[self].args))
               /\ UNCHANGED << status, wg >>
    /\ ret' = [ret EXCEPT ![self] = NoRet]
    /\ UNCHANGED << providers, handlers, listeners, heap, ops, execs, fails,
                    returned, invoked >>
    /\ UNCHANGED poolVars

\* a Call that hands the listener the event of the publication itself
listenerWroteShared(top, l) ==
    IF Funcs[l].effect = "write" THEN [top EXCEPT !.cmd.data = << 0 >>] ELSE top

\* the frame of processEvent when listener l has run: a listener that
\* assigns to a field of its event has written to its own parameter, the
\* copy of the struct that Call made
listenerWrote(top, l) ==
    IF Funcs[l].effect = "write" THEN [top EXCEPT !.args[2].data = << 0 >>] ELSE top

\* the listener processEvent called returns, and the loop goes on
ListenerReturn(self) ==
    /\ status[self] = "running"
    /\ Top(self).op = "processEvent"
    /\ Top(self).pc = "incall"
    /\ LET top == listenerWrote(Top(self), listeners[Top(self).fn][Top(self).i + 1]) IN
        EventLoop(self, [top EXCEPT !.args = << >>], top.i + 1,
                  Append(call[self].log,
                         Event("return", listeners[top.fn][top.i + 1], "ok", << >>)))
    /\ UNCHANGED << providers, handlers, listeners, heap, ret, ops,
                    execs, fails, returned, invoked >>
    /\ UNCHANGED poolVars

Next ==
    \/ \E self \in Threads : \E p \in InvokePayloads(self) : StartInvoke(self, p)
    \/ \E self \in Threads : \E fn \in ExecFuncs : StartExec(self, fn)
    \/ \E self \in Threads : \E e \in PublishPayloads(self) : StartPublish(self, e)
    \/ \E self \in Tasks : Resolve(self)
    \/ \E self \in Tasks : BuildStruct(self)
    \/ \E self \in Tasks : New(self)
    \/ \E self \in Tasks : NewSingleton(self)
    \/ \E self \in Tasks : ProviderReturn(self)
    \/ \E self \in Tasks : CallHandler(self)
    \/ \E self \in Tasks : HandlerReturn(self)
    \/ \E self \in Tasks : ProcessEvent(self)
    \/ \E self \in Tasks : ListenerReturn(self)

Spec == Init /\ [][Next]_vars

\* ------------------------------------------------------------------------
\* The startup phase: any sequence of registration calls on a new bus,
\* made by the main thread. A call that is rejected panics with the error;
\* the sequence goes on as in a test that recovers the panic.

\* a Subscribe that passes over a listener it rejects and goes on with the
\* rest
RECURSIVE subscribeListenersSkipping(_, _, _, _)
subscribeListenersSkipping(b, eventType, ls, done) ==
    IF ls = << >>
    THEN [bus |-> b, err |-> NoErr, log |-> done]
    ELSE IF registerListenerErr(b, eventType, Head(ls)) # NoErr
    THEN LET r == subscribeListenersSkipping(b, eventType, Tail(ls),
                        Append(done, Event("rejected", Head(ls), "", << >>)))
         IN [r EXCEPT !.err = registerListenerErr(b, eventType, Head(ls))]
    ELSE subscribeListenersSkipping(registerListener(b, eventType, Head(ls)), eventType,
                Tail(ls), Append(done, Event("registered", Head(ls), "", << >>)))

\* Subscribe's loop over the listeners it was passed: each is registered
\* in turn, and the first error ends the loop with a panic. The result is
\* the bus the call leaves, the error, and what was done listener by
\* listener.
RECURSIVE subscribeListeners(_, _, _, _)
subscribeListeners(b, eventType, ls, done) ==
    IF ls = << >>
    THEN [bus |-> b, err |-> NoErr, log |-> done]
    ELSE IF registerListenerErr(b, eventType, Head(ls)) # NoErr
    THEN [bus |-> b, err |-> registerListenerErr(b, eventType, Head(ls)),
          log |-> Append(done, Event("rejected", Head(ls), "", << >>))]
    ELSE subscribeListeners(registerListener(b, eventType, Head(ls)), eventType,
                Tail(ls), Append(done, Event("registered", Head(ls), "", << >>)))

\* the functions the callers pass to Provide and ProvideSingleton
ProviderFuncs ==
    { "provideSetInt", "provideGetInt", "provideA", "provideB", "ProvideCounter",
      "provideSameType", "provideSameTypeSecond", "provideDeps", "provideCtx",
      "provideSetIntCtx", "provideSetIntDeps", "provideSetIntFromGet",
      "provideInt", "providePtr", "provideUnexported", "provideNotInterface",
      "notAFunction" }

\* the commands and handlers the callers pass to Handle
HandleCalls ==
    { Call("Handle", "Command", "handleGet"),
      Call("Handle", "Command", "handleA"),
      Call("Handle", "benchCommand", "handleBench"),
      Call("Handle", "IncrementCommand", "Increment"),
      Call("Handle", "SumCommand", "Sum"),
      Call("Handle", "Command", "Sum"),
      Call("Handle", "Command", "handleBusDeps"),
      Call("Handle", "Command", "handleCtxTwice") }

\* the events and listeners the callers pass to Subscribe
SubscribeCalls ==
    { Call("Subscribe", "Event", <<"listenerA">>),
      Call("Subscribe", "Event", <<"HelloWorldPrinted">>),
      Call("Subscribe", "Event", <<"listenerSetInt">>),
      Call("Subscribe", "Event", <<"listenerBusDeps">>),
      Call("Subscribe", "Command", <<"listenerA">>),
      Call("Subscribe", "Event", <<"listenerA", "HelloWorldPrinted">>),
      Call("Subscribe", "Event", <<"listenerA", "listenerBusDeps">>),
      Call("Subscribe", "Event", <<"listenerBusDeps", "listenerA">>) }

InitReg ==
    /\ InitPool
    /\ providers = NewBus.providers
    /\ handlers = NewBus.handlers
    /\ listeners = NewBus.listeners
    /\ wg = 0
    /\ heap = [r \in Threads |-> << >>]
    /\ status = [t \in Tasks |-> IF t \in Threads THEN "idle" ELSE "unborn"]
    /\ stack = [t \in Tasks |-> << >>]
    /\ ret = [t \in Tasks |-> NoRet]
    /\ call = [t \in Tasks |-> NoCall]
    /\ ops = 0
    /\ execs = [t \in CapTypes |-> 0]
    /\ fails = [t \in CapTypes |-> 0]
    /\ returned = [t \in CapTypes |-> {}]
    /\ invoked = [f \in FuncNames |-> 0]

theRegistry == [providers |-> providers, handlers |-> handlers, listeners |-> listeners]

\* registration call c is made: the registries change when it is accepted;
\* the call and its error are kept as the last call of the main thread
RegistrationCall(c) ==
    \E b \in { Register(theRegistry, c) } :
    \E err \in { RegisterErr(theRegistry, c) } :
    /\ ops' = ops + 1
    /\ providers' = b.providers
    /\ handlers' = b.handlers
    /\ listeners' = b.listeners
    /\ call' = [call EXCEPT ![1] =
            [NoCall EXCEPT !.id = ops + 1, !.op = c.call, !.fn = c.fn,
                           !.cmd = IF c.type = "" THEN NilValue ELSE Val(c.type, 0, << >>),
                           !.result = err]]
    /\ status' = [status EXCEPT ![1] = IF err # NoErr THEN "panicked" ELSE "returned"]
    /\ UNCHANGED << wg, heap, stack, ret, execs, fails, returned, invoked >>
    /\ UNCHANGED poolVars

Provide(provider) ==
    /\ ops < MaxRegs
    /\ RegistrationCall(Call("Provide", "", provider))

ProvideSingleton(provider) ==
    /\ ops < MaxRegs
    /\ RegistrationCall(Call("ProvideSingleton", "", provider))

Handle(cmd, handler) ==
    /\ ops < MaxRegs
    /\ RegistrationCall(Call("Handle", cmd, handler))

\* Subscribe(event, listeners...): the listener kept as the call's function
\* is the one that was rejected, or the last one
Subscribe(event, ls) ==
    /\ ops < MaxRegs
    /\ \E r \in { subscribeListeners(theRegistry, event, ls, << >>) } :
        /\ ops' = ops + 1
        /\ providers' = r.bus.providers
        /\ handlers' = r.bus.handlers
        /\ listeners' = r.bus.listeners
        /\ call' = [call EXCEPT ![1] =
                [NoCall EXCEPT !.id = ops + 1, !.op = "Subscribe",
                               !.fn = r.log[Len(r.log)].fn,
                               !.cmd = Val(event, 0, << >>),
                               !.result = r.err,
                               !.log = r.log]]
        /\ status' = [status EXCEPT ![1] = IF r.err # NoErr THEN "panicked" ELSE "returned"]
        /\ UNCHANGED << wg, heap, stack, ret, execs, fails, returned, invoked >>
        /\ UNCHANGED poolVars

NextReg ==
    \/ \E f \in ProviderFuncs : Provide(f)
    \/ \E f \in ProviderFuncs : ProvideSingleton(f)
    \/ \E c \in HandleCalls : Handle(c.type, c.fn)
    \/ \E c \in SubscribeCalls : Subscribe(c.type, c.fn)

SpecReg == InitReg /\ [][NextReg]_vars

\* ------------------------------------------------------------------------
\* Wait: the caller blocks until the counter of b.wg is zero

\* a Wait that returns at once
wgWaitDoneAlways(n) == TRUE

\* b.wg.Wait() can return: the counter is zero
wgWaitDone(n) == n = 0

\* the goroutines started so far
Born == { g \in Goroutines : status[g] # "unborn" }

\* Wait is called. The call keeps, as its payload, how many publications
\* had been made when it started.
StartWait(self) ==
    /\ CanStart(self)
    /\ ops' = ops + 1
    /\ status' = [status EXCEPT ![self] = "running"]
    /\ call' = [call EXCEPT ![self] =
            NewCall(self, "Wait", "", Val("int", 0, << Cardinality(Born) >>))]
    /\ stack' = [stack EXCEPT ![self] =
            << [Frame("Wait", "", NilValue) EXCEPT !.pc = "wait"] >>]
    /\ UNCHANGED << providers, handlers, listeners, wg, heap, ret, execs, fails,
                    returned, invoked >>
    /\ UNCHANGED poolVars

WaitReturn(self) ==
    /\ status[self] = "running"
    /\ Top(self).op = "Wait"
    /\ wgWaitDone(wg)
    /\ stack' = [stack EXCEPT ![self] = << >>]
    /\ status' = [status EXCEPT ![self] = "returned"]
    /\ UNCHANGED << providers, handlers, listeners, wg, heap, ret, call, ops, execs,
                    fails, returned, invoked >>
    /\ UNCHANGED poolVars

\* the command whose handler publishes
WaitPayloads(self) ==
    { [val |-> Val("*IncrementCommand", self, << >>), obj |-> <<0>>] }

\* callers that publish, invoke the handler that publishes, and wait
NextW ==
    \/ \E self \in Threads : \E p \in WaitPayloads(self) : StartInvoke(self, p)
    \/ \E self \in Threads : \E e \in PublishPayloads(self) : StartPublish(self, e)
    \/ \E self \in Threads : StartWait(self)
    \/ \E self \in Tasks : Resolve(self)
    \/ \E self \in Tasks : New(self)
    \/ \E self \in Tasks : NewSingleton(self)
    \/ \E self \in Tasks : ProviderReturn(self)
    \/ \E self \in Tasks : CallHandler(self)
    \/ \E self \in Tasks : HandlerReturn(self)
    \/ \E self \in Tasks : ProcessEvent(self)
    \/ \E self \in Tasks : ListenerReturn(self)
    \/ \E self \in Threads : WaitReturn(self)

SpecW == Init /\ [][NextW]_vars

\* a step of task self that is not the start of an operation
TaskStep(self) ==
    \/ Resolve(self)
    \/ New(self)
    \/ NewSingleton(self)
    \/ ProviderReturn(self)
    \/ CallHandler(self)
    \/ HandlerReturn(self)
    \/ ProcessEvent(self)
    \/ ListenerReturn(self)
    \/ WaitReturn(self)

\* a task that can take a step is scheduled in the end, and every provider,
\* handler and listener returns; whether and when the callers start
\* operations is up to them
LiveSpecW == SpecW /\ WF_vars(\E self \in Tasks : TaskStep(self))

\* ------------------------------------------------------------------------
\* The blocking Publish of busImpl: one goroutine per listener, each
\* resolving the arguments of its own listener; Publish waits for all of
\* them and returns the first error. Its locals live in the frame of the
\* publishing thread: i is the counter of wg, args holds firstErr once
\* firstErrOnce has run.

InitB ==
    /\ InitPool
    /\ LET b == Startup(NewBus, BlockingSetup) IN
            /\ \A j \in 1..Len(BlockingSetup) :
                    RegisterErr(Startup(NewBus, SubSeq(BlockingSetup, 1, j - 1)),
                                BlockingSetup[j]) = NoErr
            /\ providers = b.providers
            /\ handlers = b.handlers
            /\ listeners = b.listeners
    /\ wg = 0
    /\ heap = [r \in Threads |-> << >>]
    /\ status = [t \in Tasks |-> IF t \in Threads THEN "idle" ELSE "unborn"]
    /\ stack = [t \in Tasks |-> << >>]
    /\ ret = [t \in Tasks |-> NoRet]
    /\ call = [t \in Tasks |-> NoCall]
    /\ ops = 0
    /\ execs = [t \in CapTypes |-> 0]
    /\ fails = [t \in CapTypes |-> 0]
    /\ returned = [t \in CapTypes |-> {}]
    /\ invoked = [f \in FuncNames |-> 0]

\* an event with two listeners, one with none, and a pointer
BlockingPayloads(self) ==
    { Val("Event", 0, <<1>>), Val("Command", 0, <<0>>), Val("*Command", self, << >>) }

firstErr(fr) == IF fr.args = << >> THEN NoErr ELSE fr.args[1]

\* a Publish that keeps the error of the last listener to fail
firstErrOverwritten(fr, err) == [fr EXCEPT !.args = << err >>]

\* firstErrOnce.Do(func() { firstErr = err })
firstErrOnceDo(fr, err) ==
    IF fr.args = << >> THEN [fr EXCEPT !.args = << err >>] ELSE fr

\* a loop that stops one listener short
listenerTasksButLast(ls) == 0..(Len(ls) - 2)

\* for i := range listeners: the indices a goroutine is started for
listenerTasks(ls) == 0..(Len(ls) - 1)

\* a Publish that does not wait
wgWaitSkipped(fr) == TRUE

\* wg.Wait() returns: the counter is zero
wgWait(fr) == fr.i = 0

\* the goroutine the j-th go statement from now starts (j from 0)
NthGoroutine(j) ==
    LET U == { g \in Goroutines : status[g] = "unborn" }
    IN CHOOSE g \in U : Cardinality({ h \in U : h < g }) = j

\* the thread whose Publish started listener goroutine g
publisherOf(g) == call[g].ctx.ref

PublishBlocking(self, event) ==
    /\ CanStart(self)
    /\ ops' = ops + 1
    /\ UNCHANGED ret
    /\ IF publishError(event) # NoErr
       THEN /\ status' = [status EXCEPT ![self] = "returned"]
            /\ call' = [call EXCEPT ![self] =
                    [NewCall(self, "Publish", "", event) EXCEPT !.result = publishError(event)]]
            /\ UNCHANGED << stack, wg >>
       ELSE IF TypeOf(event) \notin DOMAIN listeners
       THEN /\ status' = [status EXCEPT ![self] = "returned"]
            /\ call' = [call EXCEPT ![self] = NewCall(self, "Publish", "", event)]
            /\ UNCHANGED << stack, wg >>
       ELSE LET ls == listeners[TypeOf(event)]
                is == listenerTasks(ls)
                gs == { NthGoroutine(j) : j \in is }
                ix(g) == CHOOSE j \in is : NthGoroutine(j) = g
            IN
            /\ wg' = wg + Cardinality(is)
            /\ status' = [t \in Tasks |->
                    IF t = self \/ t \in gs THEN "running" ELSE status[t]]
            /\ call' = [t \in Tasks |->
                    IF t = self THEN NewCall(self, "Publish", "", event)
                    ELSE IF t \in gs THEN NewCall(self, "listener", ls[ix(t) + 1], event)
                    ELSE call[t]]
            /\ stack' = [t \in Tasks |->
                    IF t = self
                    THEN << [Frame("Publish", TypeOf(event), event)
                                EXCEPT !.pc = "wait", !.i = Cardinality(is)] >>
                    ELSE IF t \in gs THEN << Frame("listener", ls[ix(t) + 1], event) >>
                    ELSE stack[t]]
    /\ UNCHANGED << providers, handlers, listeners, heap, execs, fails, returned, invoked >>
    /\ UNCHANGED poolVars

\* defer wg.Done(); defer b.runnig.Done(): listener goroutine g ends, after
\* its error, if any, went to firstErr. The log of the publication lists
\* its listeners in the order in which they ended.
ListenerEnds(g, err, ev) ==
    LET p == publisherOf(g)
        pf == IF err # NoErr THEN firstErrOnceDo(Top(p), err) ELSE Top(p)
    IN
    /\ stack' = [stack EXCEPT ![g] = << >>,
                              ![p] = IF @ = << >> THEN @
                                     ELSE << [pf EXCEPT !.i = @ - 1] >>]
    /\ status' = [status EXCEPT ![g] = "done"]
    /\ wg' = wg - 1
    /\ call' = [call EXCEPT ![g].log = Append(@, ev), ![p].log = Append(@, ev)]

\* the goroutine of a listener starts: it resolves the listener's
\* arguments, up to the first provider they need
ListenerStart(g) ==
    /\ status[g] = "running"
    /\ Top(g).op = "listener"
    /\ Top(g).pc = "entry"
    /\ LET top == Top(g)
           e == EnterResolve(top.fn, top.cmd, call[g].ctx)
       IN IF e.done
          THEN /\ stack' = [stack EXCEPT ![g] =
                        << [top EXCEPT !.pc = "incall", !.args = e.args] >>]
               /\ call' = Log(g, Event("call", top.fn, "", e.args))
          ELSE /\ stack' = [stack EXCEPT ![g] =
                        << [top EXCEPT !.pc = "resolved"] >> \o e.frames]
               /\ UNCHANGED call
    /\ UNCHANGED << providers, handlers, listeners, wg, heap, status, ret, ops,
                    execs, fails, returned, invoked >>
    /\ UNCHANGED poolVars

\* resolve has returned in the goroutine of a listener: its error goes to
\* firstErr and the goroutine ends, or the listener is called
ListenerResolved(g) ==
    /\ status[g] = "running"
    /\ Top(g).op = "listener"
    /\ Top(g).pc = "resolved"
    /\ LET top == Top(g)
       IN IF ret[g].err # NoErr
          THEN ListenerEnds(g, ret[g].err, Event("failed", top.fn, "", << >>))
          ELSE /\ stack' = [stack EXCEPT ![g] =
                        << [top EXCEPT !.pc = "incall", !.args = ret[g].args] >>]
               /\ call' = Log(g, Event("call", top.fn, "", ret[g].args))
               /\ UNCHANGED << status, wg >>
    /\ ret' = [ret EXCEPT ![g] = NoRet]
    /\ UNCHANGED << providers, handlers, listeners, heap, ops, execs, fails,
                    returned, invoked >>
    /\ UNCHANGED poolVars

\* the listener returns and its goroutine ends
ListenerDone(g) ==
    /\ status[g] = "running"
    /\ Top(g).op = "listener"
    /\ Top(g).pc = "incall"
    /\ ListenerEnds(g, NoErr, Event("return", Top(g).fn, "ok", << >>))
    /\ UNCHANGED << providers, handlers, listeners, heap, ret, ops, execs, fails,
                    returned, invoked >>
    /\ UNCHANGED poolVars

\* wg.Wait() returns and Publish returns firstErr
PublishReturn(self) ==
    /\ status[self] = "running"
    /\ Top(self).op = "Publish"
    /\ Top(self).pc = "wait"
    /\ wgWait(Top(self))
    /\ stack' = [stack EXCEPT ![self] = << >>]
    /\ status' = [status EXCEPT ![self] = "returned"]
    /\ call' = [call EXCEPT ![self].result = firstErr(Top(self))]
    /\ UNCHANGED << providers, handlers, listeners, wg, heap, ret, ops, execs,
                    fails, returned, invoked >>
    /\ UNCHANGED poolVars

NextB ==
    \/ \E self \in Threads : \E e \in BlockingPayloads(self) : PublishBlocking(self, e)
    \/ \E self \in Tasks : ListenerStart(self)
    \/ \E self \in Tasks : Resolve(self)
    \/ \E self \in Tasks : New(self)
    \/ \E self \in Tasks : NewSingleton(self)
    \/ \E self \in Tasks : ProviderReturn(self)
    \/ \E self \in Tasks : ListenerResolved(self)
    \/ \E self \in Tasks : ListenerDone(self)
    \/ \E self \in Threads : PublishReturn(self)

SpecB == InitB /\ [][NextB]_vars

\* ------------------------------------------------------------------------
\* Injection: callers that invoke, execute, publish and wait on a bus whose
\* handlers take capability sets and contexts

InitDI ==
    /\ InitPool
    /\ \E k \in 1..Len(InjectionSetups) :
            LET b == Startup(NewBus, InjectionSetups[k]) IN
            /\ \A j \in 1..Len(InjectionSetups[k]) :
                    RegisterErr(Startup(NewBus, SubSeq(InjectionSetups[k], 1, j - 1)),
                                InjectionSetups[k][j]) = NoErr
            /\ providers = b.providers
            /\ handlers = b.handlers
            /\ listeners = b.listeners
    /\ wg = 0
    /\ heap = [r \in Threads |-> << >>]
    /\ status = [t \in Tasks |-> IF t \in Threads THEN "idle" ELSE "unborn"]
    /\ stack = [t \in Tasks |-> << >>]
    /\ ret = [t \in Tasks |-> NoRet]
    /\ call = [t \in Tasks |-> NoCall]
    /\ ops = 0
    /\ execs = [t \in CapTypes |-> 0]
    /\ fails = [t \in CapTypes |-> 0]
    /\ returned = [t \in CapTypes |-> {}]
    /\ invoked = [f \in FuncNames |-> 0]

\* the command of the handlers
InjectionPayloads(self) ==
    { [val |-> Val("*Command", self, << >>), obj |-> <<0>>] }

\* the functions the callers pass to Exec: one with a capability set, one
\* with a context after a capability, one without a return value, nil, and
\* one with a capability whose provider takes the context
InjectionFuncs ==
    { "execServiceSet", "execCtxSecond", "execNoReturn", "nilFunc", "execGet" }

InjectionEvents(self) == { Val("Event", 0, <<1>>) }

NextDI ==
    \/ \E self \in Threads : \E p \in InjectionPayloads(self) : StartInvoke(self, p)
    \/ \E self \in Threads : \E fn \in InjectionFuncs : StartExec(self, fn)
    \/ \E self \in Threads : \E e \in InjectionEvents(self) : StartPublish(self, e)
    \/ \E self \in Threads : StartWait(self)
    \/ \E self \in Tasks : Resolve(self)
    \/ \E self \in Tasks : BuildStruct(self)
    \/ \E self \in Tasks : New(self)
    \/ \E self \in Tasks : NewSingleton(self)
    \/ \E self \in Tasks : ProviderReturn(self)
    \/ \E self \in Tasks : CallHandler(self)
    \/ \E self \in Tasks : HandlerReturn(self)
    \/ \E self \in Tasks : ProcessEvent(self)
    \/ \E self \in Tasks : ListenerReturn(self)
    \/ \E self \in Threads : WaitReturn(self)

SpecDI == InitDI /\ [][NextDI]_vars

\* ------------------------------------------------------------------------
\* Applications whose capabilities are singletons, resolved by concurrent
\* callers

SingletonSetups ==
    << \* the singletons of the benchmark, serviceB built from serviceA, and
       \* the counter of the example, which depends on neither
       << Call("ProvideSingleton", "", "provideA"),
          Call("ProvideSingleton", "", "provideB"),
          Call("ProvideSingleton", "", "ProvideCounter"),
          Call("Handle", "Command", "handleA"),
          Call("Handle", "benchCommand", "handleBench") >>,
       \* a capability provided a second time, by a singleton that takes a
       \* capability set with a field of the capability's own type
       << Call("Provide", "", "provideSetInt"),
          Call("ProvideSingleton", "", "provideSetIntDeps") >> >>

InitS ==
    /\ InitPool
    /\ \E k \in 1..Len(SingletonSetups) :
            LET b == Startup(NewBus, SingletonSetups[k]) IN
            /\ \A j \in 1..Len(SingletonSetups[k]) :
                    RegisterErr(Startup(NewBus, SubSeq(SingletonSetups[k], 1, j - 1)),
                                SingletonSetups[k][j]) = NoErr
            /\ providers = b.providers
            /\ handlers = b.handlers
            /\ listeners = b.listeners
    /\ wg = 0
    /\ heap = [r \in Threads |-> << >>]
    /\ status = [t \in Tasks |-> IF t \in Threads THEN "idle" ELSE "unborn"]
    /\ stack = [t \in Tasks |-> << >>]
    /\ ret = [t \in Tasks |-> NoRet]
    /\ call = [t \in Tasks |-> NoCall]
    /\ ops = 0
    /\ execs = [t \in CapTypes |-> 0]
    /\ fails = [t \in CapTypes |-> 0]
    /\ returned = [t \in CapTypes |-> {}]
    /\ invoked = [f \in FuncNames |-> 0]

\* the commands of the handlers
SingletonPayloads(self) ==
    { [val |-> Val("*Command", self, << >>), obj |-> <<0>>],
      [val |-> Val("*benchCommand", self, << >>), obj |-> <<1>>] }

\* the functions the callers pass to Exec
SingletonFuncs == { "execCounter", "execDeps" }

\* a step of task self inside an Invoke or an Exec
ResolutionStep(self) ==
    \/ Resolve(self)
    \/ BuildStruct(self)
    \/ New(self)
    \/ NewSingleton(self)
    \/ ProviderReturn(self)
    \/ CallHandler(self)
    \/ HandlerReturn(self)

NextS ==
    \/ \E self \in Threads : \E p \in SingletonPayloads(self) : StartInvoke(self, p)
    \/ \E self \in Threads : \E fn \in SingletonFuncs : StartExec(self, fn)
    \/ \E self \in Tasks : Resolve(self)
    \/ \E self \in Tasks : BuildStruct(self)
    \/ \E self \in Tasks : New(self)
    \/ \E self \in Tasks : NewSingleton(self)
    \/ \E self \in Tasks : ProviderReturn(self)
    \/ \E self \in Tasks : CallHandler(self)
    \/ \E self \in Tasks : HandlerReturn(self)

SpecS == InitS /\ [][NextS]_vars

\* a thread that can take a step is scheduled in the end, and every
\* constructor and handler returns
LiveSpecS == SpecS /\ WF_vars(\E self \in Tasks : ResolutionStep(self))

\* ------------------------------------------------------------------------
\* Properties

SingletonTypes == { t \in DOMAIN providers : providers[t].singleton }

\* the positions of the events of kind ev in the log of task x
EventsOf(x, ev) == { k \in 1..Len(call[x].log) : call[x].log[k].ev = ev }

\* the values of type t that a function or a provider was called with
Received(t) ==
    UNION { UNION { { call[x].log[k].args[j] :
                        j \in { i \in 1..Len(call[x].log[k].args) :
                                    call[x].log[k].args[i].type = t } } :
                    k \in 1..Len(call[x].log) } :
            x \in Tasks }

\* the tasks whose operation has called its function with a value of type t
Receivers(t) ==
    { x \in Tasks : \E k \in EventsOf(x, "call") :
                        \E j \in 1..Len(call[x].log[k].args) :
                            call[x].log[k].args[j].type = t }

\* the caller's operation is over and has returned
Returned(x, op) == x \in Threads /\ status[x] = "returned" /\ call[x].op = op

\* C1: a singleton provider's constructor has at most one execution that
\* did not fail, however many resolutions there were and from whichever of
\* Invoke, Exec and a listener of Publish; every resolution returned the
\* one instance that execution made, and every function that takes the
\* capability was called with it.
C1_SingletonOnce ==
    \A t \in SingletonTypes :
        /\ execs[t] - fails[t] <= 1
        /\ Cardinality(returned[t]) <= 1
        /\ returned[t] # {} =>
                /\ providers[t].instance # NilValue
                /\ returned[t] = {providers[t].instance.ref}
                /\ execs[t] = fails[t] + 1
        /\ Received(t) \subseteq {providers[t].instance}

C1_Witness ==
    \E t \in SingletonTypes :
        /\ execs[t] = 1
        /\ fails[t] = 0
        /\ { call[x].op : x \in Receivers(t) } = {"Invoke", "Exec", "processEvent"}

\* C2: after a singleton provider's constructor has returned an error the
\* slot is empty and unlocked, the operation that resolved it returns the
\* error, and an instance in the slot comes from the execution that
\* followed all the failed ones.
C2_FailedSingletonRetried ==
    \A t \in SingletonTypes :
        /\ providers[t].instance # NilValue =>
                /\ providers[t].instance.type = t
                /\ providers[t].instance.ref = fails[t] + 1
                /\ execs[t] = fails[t] + 1
        /\ (providers[t].instance = NilValue /\ providers[t].lock = 0) =>
                /\ execs[t] = fails[t]
                /\ returned[t] = {}
        /\ \A x \in Threads :
                /\ status[x] = "returned"
                /\ call[x].op \in {"Invoke", "Exec"}
                /\ \E k \in EventsOf(x, "provider") :
                        call[x].log[k].fn = t /\ call[x].log[k].out = "err"
                => ErrorsIs(call[x].result, wrapProviderError(t, providerError))

C2_Witness ==
    \E t \in SingletonTypes :
        /\ fails[t] >= 1
        /\ providers[t].instance # NilValue
        /\ \E x \in Threads :
                /\ status[x] = "returned"
                /\ ErrorsIs(call[x].result, wrapProviderError(t, providerError))
        /\ \E y \in Receivers(t) : status[y] \in {"returned", "done"}

\* the capability types resolve asks b.new for when it binds the
\* parameters of f, in order: interface parameters, and the fields of
\* struct parameters
RECURSIVE DepSeq(_, _)
DepSeq(f, i) ==
    IF i >= NumIn(f) THEN << >>
    ELSE (CASE i = 0 /\ In(f, i) = typeContext -> << >>
            [] Kind(In(f, i)) = "Interface" -> << In(f, i) >>
            [] Kind(In(f, i)) = "Struct" /\ In(f, i) \in DOMAIN StructFields ->
                    [k \in 1..Len(VisibleFields(In(f, i))) |-> VisibleFields(In(f, i))[k].type]
            [] OTHER -> << >>) \o DepSeq(f, i + 1)

\* how many times resolving the types qs asks for t, going through the
\* providers that are not singletons
RECURSIVE Occ(_, _)
Occ(qs, t) ==
    IF qs = << >> THEN 0
    ELSE (IF Head(qs) = t THEN 1 ELSE 0)
         + (IF Head(qs) \in DOMAIN providers /\ ~providers[Head(qs)].singleton
            THEN Occ(DepSeq(providers[Head(qs)].fn, 0), t) ELSE 0)
         + Occ(Tail(qs), t)

\* resolving the types qs can ask for t, through any provider
RECURSIVE Reaches(_, _)
Reaches(qs, t) ==
    \E k \in 1..Len(qs) :
        \/ qs[k] = t
        \/ qs[k] \in DOMAIN providers /\ Reaches(DepSeq(providers[qs[k]].fn, 0), t)

\* t is reached from function f under a singleton
ThroughSingleton(f, t) ==
    \E u \in SingletonTypes :
        Reaches(DepSeq(f, 0), u) /\ Reaches(DepSeq(providers[u].fn, 0), t)

RegularTypes == { t \in DOMAIN providers : ~providers[t].singleton }

Handlers == { handlers[c] : c \in DOMAIN handlers }

RECURSIVE SumOver(_, _)
SumOver(S, f) ==
    IF S = {} THEN 0
    ELSE LET x == CHOOSE y \in S : TRUE IN f[x] + SumOver(S \ {x}, f)

\* every operation so far was an Invoke that went up to resolve, all of
\* them are over, no provider has failed and no goroutine was started
OnlyInvokesDone ==
    /\ \A x \in Threads : status[x] \in {"idle", "returned"}
    /\ \A g \in Goroutines : status[g] = "unborn"
    /\ ops = SumOver(Handlers, invoked)
    /\ \A t \in CapTypes : fails[t] = 0

\* C3 as stated: after N calls of Invoke on handlers that take a regular
\* provider's type as a parameter, all successful, the provider has been
\* executed N times.
C3_ExactlyNExecutions ==
    OnlyInvokesDone =>
        \A t \in RegularTypes :
            (\A h \in Handlers : invoked[h] > 0 => \E k \in 1..Len(DepSeq(h, 0)) : DepSeq(h, 0)[k] = t)
            => execs[t] = SumOver(Handlers, invoked)

\* C3: a regular provider that a handler depends on, and not under a
\* singleton, is executed by every Invoke whose resolution succeeds once
\* for each occurrence of its type in the handler's dependency tree, with
\* nothing cached from another call: after N such calls it has been
\* executed N times the number of occurrences.
C3_OncePerOccurrence ==
    /\ \A x \in Threads :
            (call[x].op = "Invoke" /\ EventsOf(x, "call") # {}) =>
                \A t \in RegularTypes :
                    ~ThroughSingleton(call[x].fn, t) =>
                        Cardinality({ k \in EventsOf(x, "provider") : call[x].log[k].fn = t })
                            = Occ(DepSeq(call[x].fn, 0), t)
    /\ OnlyInvokesDone =>
            \A t \in RegularTypes :
                (\A h \in Handlers : invoked[h] > 0 => ~ThroughSingleton(h, t))
                => execs[t] = SumOver(Handlers, [h \in Handlers |-> invoked[h] * Occ(DepSeq(h, 0), t)])

C3_Witness ==
    /\ OnlyInvokesDone
    /\ \E t \in RegularTypes : \E h \in Handlers :
            /\ Occ(DepSeq(h, 0), t) = 1
            /\ invoked[h] = 2
            /\ execs[t] = 2
            /\ \A x \in Threads : Returned(x, "Invoke") /\ call[x].fn = h

\* C4: the handler is called with the caller's own payload pointer, and
\* what it wrote to the payload's fields is in the caller's object when
\* Invoke has returned.
C4_PayloadShared ==
    \A x \in Threads :
        call[x].op = "Invoke" =>
            /\ \A k \in EventsOf(x, "call") : call[x].log[k].args[2] = call[x].cmd
            /\ (status[x] = "returned" /\ EventsOf(x, "return") # {}
                    /\ Funcs[call[x].fn].effect = "sum")
                => heap[call[x].cmd.ref][3] = heap[call[x].cmd.ref][1] + heap[call[x].cmd.ref][2]

C4_Witness ==
    \E x \in Threads :
        /\ Returned(x, "Invoke")
        /\ call[x].fn = "Sum"
        /\ call[x].result = NoErr
        /\ heap[x] = <<1, 2, 3>>

\* C5: an Invoke calls no function but the handler registered for its
\* payload's struct type, at most once, and exactly once when it returns
\* nil.
C5_OneHandler ==
    \A x \in Threads :
        call[x].op = "Invoke" =>
            /\ Cardinality(EventsOf(x, "call")) <= 1
            /\ \A k \in EventsOf(x, "call") :
                    /\ call[x].log[k].fn = handlers[Elem(TypeOf(call[x].cmd))]
                    /\ In(call[x].log[k].fn, 1) = TypeOf(call[x].cmd)
            /\ (status[x] = "returned" /\ call[x].result = NoErr) =>
                    /\ Cardinality(EventsOf(x, "call")) = 1
                    /\ Cardinality(EventsOf(x, "return")) = 1

C5_Witness ==
    \E x, y \in Threads :
        /\ Returned(x, "Invoke") /\ call[x].result = NoErr
        /\ Returned(y, "Invoke") /\ call[y].result = NoErr
        /\ call[x].fn # call[y].fn
        /\ EventsOf(x, "call") # {}
        /\ EventsOf(y, "call") # {}

\* a goroutine is started only by a publication: by Publish, or by a
\* handler that publishes an event as it returns
SpawnOnlyByPublish ==
    \A g \in Goroutines :
        (status[g] = "unborn" /\ status'[g] # "unborn") =>
            /\ wg' = wg + 1
            /\ call'[g].op = "processEvent"
            /\ \E x \in Threads :
                \/ ops' = ops + 1 /\ call'[x].id = ops' /\ call'[x].op = "Publish"
                \/ /\ status[x] = "running"
                   /\ Top(x).op = "Invoke"
                   /\ Top(x).pc = "incall"
                   /\ Funcs[Top(x).fn].effect = "publish"
                   /\ status'[x] = "returned"

\* the handler of an Invoke is with the caller, and when Invoke has
\* returned the handler it called has returned
HandlerOnCaller ==
    /\ \A y \in Tasks :
            (call[y].op = "Invoke" \/ \E k \in 1..Len(stack[y]) : stack[y][k].op = "Invoke")
            => y \in Threads
    /\ \A x \in Threads :
            Returned(x, "Invoke") =>
                /\ Cardinality(EventsOf(x, "call")) = Cardinality(EventsOf(x, "return"))
                /\ (call[x].result = NoErr => EventsOf(x, "return") # {})

\* C6: Invoke is synchronous: the handler runs on the calling thread and
\* has returned when Invoke returns, and no step of Invoke starts a
\* goroutine except the publication of a handler.
C6_Synchronous == []HandlerOnCaller /\ [][SpawnOnlyByPublish]_vars

C6_Witness ==
    \E x \in Threads : \E g \in Goroutines :
        /\ Returned(x, "Invoke")
        /\ call[x].result = NoErr
        /\ Funcs[call[x].fn].effect = "publish"
        /\ status[g] = "running"
        /\ call[g].id = call[x].id

\* the payload is a pointer to a struct type without a handler
Unhandled(v) ==
    /\ v # NilValue
    /\ isStructPtr(TypeOf(v))
    /\ Elem(TypeOf(v)) \notin DOMAIN handlers

\* the bus, the counters of executions and every other task are as they were
OthersUnchanged(x) ==
    /\ UNCHANGED << providers, handlers, listeners, wg, execs, fails, returned, invoked >>
    /\ \A y \in Tasks \ {x} :
            /\ status'[y] = status[y]
            /\ stack'[y] = stack[y]
            /\ call'[y] = call[y]
            /\ ret'[y] = ret[y]

\* C7: an Invoke with a pointer to a struct type that has no handler
\* returns the error "no handlers found" in its first step, without a
\* panic, having executed no provider and no handler, and leaves the bus
\* and every other task as they were.
C7_MissingHandler ==
    /\ [](\A x \in Threads :
            (call[x].op = "Invoke" /\ Unhandled(call[x].cmd)) =>
                /\ status[x] = "returned"
                /\ call[x].result = Errorf("no handlers found for type", Elem(TypeOf(call[x].cmd)))
                /\ call[x].log = << >>
                /\ stack[x] = << >>)
    /\ [][\A x \in Threads :
            (ops' = ops + 1 /\ call'[x].id = ops' /\ call'[x].op = "Invoke"
                /\ Unhandled(call'[x].cmd))
            => OthersUnchanged(x)]_vars

C7_Witness ==
    \E x, y \in Threads :
        /\ Returned(x, "Invoke")
        /\ Unhandled(call[x].cmd)
        /\ call[x].result # NoErr
        /\ status[y] = "running"
        /\ call[y].id < call[x].id

\* C8 as stated: an Invoke with a payload that is not a pointer to a struct
\* (a struct by value, a pointer to a non-struct, nil) returns an error
\* without a panic, having executed no handler and no provider.
C8_NotStructPointer ==
    \A x \in Threads :
        (call[x].op = "Invoke"
            /\ (call[x].cmd = NilValue \/ ~isStructPtr(TypeOf(call[x].cmd)))) =>
            /\ status[x] = "returned"
            /\ call[x].result # NoErr
            /\ call[x].log = << >>

\* C9: when a provider returns an error during the resolution of a
\* handler's arguments, nothing is executed after it, neither a provider
\* nor the handler, and Invoke returns an error that wraps the provider's
\* error under the name of the capability type.
C9_ProviderErrorStopsInvoke ==
    \A x \in Threads :
        call[x].op = "Invoke" =>
            \A k \in EventsOf(x, "provider") :
                call[x].log[k].out = "err" =>
                    /\ k = Len(call[x].log)
                    /\ status[x] = "returned" =>
                        /\ ErrorsIs(call[x].result, providerError)
                        /\ ErrorsIs(call[x].result,
                                    wrapProviderError(call[x].log[k].fn, providerError))

C9_Witness ==
    \E x \in Threads :
        /\ Returned(x, "Invoke")
        /\ Len(call[x].log) = 1
        /\ call[x].log[1].ev = "provider"
        /\ call[x].log[1].out = "err"
        /\ call[x].log[1].fn = In(call[x].fn, 2)
        /\ NumIn(call[x].fn) > 3
        /\ In(call[x].fn, 3) \in DOMAIN providers
        /\ ErrorsIs(call[x].result, providerError)

\* C10: an Invoke whose handler was called returns what the handler
\* returned: the handler's error itself, or nil.
C10_HandlerErrorAsIs ==
    \A x \in Threads :
        (Returned(x, "Invoke") /\ EventsOf(x, "return") # {}) =>
            LET e == call[x].log[Len(call[x].log)] IN
            /\ e.ev = "return"
            /\ e.fn = call[x].fn
            /\ call[x].result = IF e.out = "err" THEN handlerError ELSE NoErr

C10_Witness ==
    \E x, y \in Threads :
        /\ Returned(x, "Invoke") /\ EventsOf(x, "return") # {}
        /\ Returned(y, "Invoke") /\ EventsOf(y, "return") # {}
        /\ call[x].result = handlerError
        /\ call[y].result = NoErr

\* ------------------------------------------------------------------------
\* Blocking Publish

\* thread x is in, or has returned from, a Publish that passed validation
Published(x) ==
    /\ x \in Threads
    /\ call[x].op = "Publish"
    /\ status[x] \in {"running", "returned"}
    /\ publishError(call[x].cmd) = NoErr

\* the listeners of the event thread x published
Subscribed(x) ==
    IF TypeOf(call[x].cmd) \in DOMAIN listeners
    THEN listeners[TypeOf(call[x].cmd)] ELSE << >>

\* the listener tasks of the publication of thread x
TasksOf(x) ==
    { g \in Goroutines : call[g].op = "listener" /\ call[g].id = call[x].id }

\* no provider failed in task g
DepsResolved(g) ==
    \A k \in EventsOf(g, "provider") : call[g].log[k].out # "err"

\* the error resolve returned in task g: that of the provider that failed
ResolveErrorOf(g) ==
    LET E == { k \in EventsOf(g, "provider") : call[g].log[k].out = "err" }
    IN IF E = {} THEN NoErr
       ELSE wrapProviderError(call[g].log[CHOOSE k \in E : \A m \in E : m <= k].fn,
                              providerError)

\* C11: a blocking Publish of an event with K listeners starts exactly one
\* task per listener, K in all; no listener is called twice, and a task
\* that has ended has called its listener exactly once if the listener's
\* dependencies resolved and not at all otherwise, whatever became of the
\* other listeners.
C11_EachListenerOnce ==
    \A x \in Threads : Published(x) =>
        /\ Cardinality(TasksOf(x)) = Len(Subscribed(x))
        /\ \A j \in 1..Len(Subscribed(x)) :
            LET gs == { g \in TasksOf(x) : call[g].fn = Subscribed(x)[j] } IN
            /\ Cardinality(gs) = 1
            /\ \A g \in gs :
                /\ Cardinality(EventsOf(g, "call")) <= 1
                /\ status[g] = "done" =>
                    /\ DepsResolved(g) => Cardinality(EventsOf(g, "call")) = 1
                    /\ ~DepsResolved(g) => EventsOf(g, "call") = {}

\* a Publish has returned after one of its two listeners failed to resolve
\* and the other was called and returned
C11_Witness ==
    \E x \in Threads :
        /\ Returned(x, "Publish")
        /\ \E g1, g2 \in TasksOf(x) :
            /\ ~DepsResolved(g1) /\ EventsOf(g1, "failed") # {}
            /\ DepsResolved(g2) /\ EventsOf(g2, "return") # {}

C13_FanIn ==
    \A x \in Threads : Returned(x, "Publish") =>
        \A g \in TasksOf(x) : status[g] = "done"

\* a Publish has returned nil after both its listeners were called and
\* returned
C13_Witness ==
    \E x \in Threads :
        /\ Returned(x, "Publish")
        /\ call[x].result = NoErr
        /\ Cardinality(TasksOf(x)) = 2
        /\ \A g \in TasksOf(x) : EventsOf(g, "return") # {}

\* C14: the arguments of every listener are resolved on the publishing
\* thread, so no provider runs in a listener task, and no listener of a
\* publication has been called when the resolution of one of them fails.
C14_ResolvedBeforeStart ==
    \A g \in Goroutines : call[g].op = "listener" =>
        /\ EventsOf(g, "provider") = {}
        /\ \A h \in Goroutines :
            call[h].op = "listener" /\ call[h].id = call[g].id =>
                ~(EventsOf(g, "failed") # {} /\ EventsOf(h, "call") # {})

\* ------------------------------------------------------------------------
\* Fire-and-forget Publish

\* the task that processes the publication thread x made
EventTasksOf(x) ==
    { g \in Goroutines : call[g].op = "processEvent" /\ call[g].id = call[x].id }

\* C15: every listener of a publication runs in a goroutine of its own:
\* no goroutine calls two different listeners.
C15_OwnGoroutine ==
    \A g \in Goroutines :
        \A j, k \in EventsOf(g, "call") : call[g].log[j].fn = call[g].log[k].fn

\* C16: Publish never waits: it has returned as soon as it has started,
\* before any listener has; for a struct payload its result is nil and
\* stays nil whatever the listeners and their providers do, and nothing of
\* what they do is recorded with the publisher.
C16_FireAndForget ==
    \A x \in Threads : call[x].op = "Publish" =>
        /\ status[x] = "returned"
        /\ call[x].log = << >>
        /\ Kind(TypeOf(call[x].cmd)) = "Struct" => call[x].result = NoErr

\* a Publish has returned nil, and a listener of its event was skipped
\* because a provider failed
C16_Witness ==
    \E x \in Threads : \E g \in EventTasksOf(x) :
        /\ Returned(x, "Publish")
        /\ call[x].result = NoErr
        /\ EventsOf(g, "skipped") # {}
        /\ status[g] = "done"

\* ------------------------------------------------------------------------
\* Wait

\* how often the log of task g has event ev of listener l
CountOf(g, ev, l) ==
    Cardinality({ k \in EventsOf(g, ev) : call[g].log[k].fn = l })

\* the publication that goroutine g processes is over: every listener of
\* the event was called once and has returned, or was skipped once after a
\* provider failed
Processed(g) ==
    /\ status[g] = "done"
    /\ LET t == TypeOf(call[g].cmd)
           ls == IF t \in DOMAIN listeners THEN listeners[t] ELSE << >>
       IN \A j \in 1..Len(ls) :
            /\ CountOf(g, "call", ls[j]) = CountOf(g, "return", ls[j])
            /\ CountOf(g, "call", ls[j]) + CountOf(g, "skipped", ls[j]) = 1
            /\ CountOf(g, "skipped", ls[j]) = 1 => ~DepsResolved(g)

\* the goroutines of the publications made before thread x called Wait
PublishedBefore(x) ==
    { g \in Goroutines : g <= NumThreads + call[x].cmd.data[1] }

\* C17: when Wait has returned, every publication made before Wait was
\* called has been processed: each listener of its event was called once
\* and has returned, or was skipped because a dependency failed to resolve.
C17_WaitDrains ==
    \A x \in Threads : Returned(x, "Wait") =>
        \A g \in PublishedBefore(x) : Processed(g)

\* a Wait has returned that was called while a publication with two
\* listeners, made before it, was still to be processed
C17_Witness ==
    \E x \in Threads :
        /\ Returned(x, "Wait")
        /\ \E g \in PublishedBefore(x) :
            /\ TypeOf(call[g].cmd) \in DOMAIN listeners
            /\ Len(listeners[TypeOf(call[g].cmd)]) = 2
            /\ EventsOf(g, "return") # {}

Waiting(x) == x \in Threads /\ status[x] = "running" /\ call[x].op = "Wait"

\* no Publish is held up or turned down while a thread waits
PublishWhileWaiting ==
    \A x \in Threads : Waiting(x) =>
        /\ \A y \in Threads : call[y].op = "Publish" =>
                /\ status[y] = "returned"
                /\ Kind(TypeOf(call[y].cmd)) = "Struct" => call[y].result = NoErr
        /\ \A y \in Threads : CanStart(y) =>
                ENABLED StartPublish(y, Val("Event", 0, <<1>>))

\* C18: Wait neither rejects nor delays a publication made while it waits,
\* and when the listeners terminate and the publications come to an end
\* every Wait that was called returns: from some point on no thread is
\* waiting.
C18_WaitTerminates ==
    /\ []PublishWhileWaiting
    /\ <>[](\A x \in Threads : ~Waiting(x))

\* a thread waits while a publication is being processed that another
\* thread made after the Wait was called
C18_Witness ==
    \E x \in Threads : \E g \in Goroutines :
        /\ Waiting(x)
        /\ call[g].op = "processEvent" /\ status[g] = "running"
        /\ call[g].id > call[x].id

\* ------------------------------------------------------------------------
\* Registration

\* the capability types among the parameters of f from index start on, and
\* among the fields of its capability-set parameters
NeededBy(f, start) ==
    UNION { IF Kind(In(f, i)) = "Struct"
            THEN { VisibleFields(In(f, i))[k].type :
                        k \in 1..Len(VisibleFields(In(f, i))) }
            ELSE { In(f, i) } : i \in start..(NumIn(f) - 1) }
        \cap (InterfaceTypes \ {typeContext})

\* the main thread's last registration call was turned down for a type
\* without a provider
ForwardReferenceRejected ==
    \E t \in InterfaceTypes :
        call[1].result = Errorf("no providers registered for type", t)

\* C19: after any sequence of registration calls, accepted or rejected,
\* every capability type that a registered provider, handler or listener
\* takes as a parameter, or as a field of a capability-set parameter, has
\* a registered provider.
C19_NoForwardReferences ==
    /\ \A t \in DOMAIN providers :
            NeededBy(providers[t].fn, 0) \subseteq DOMAIN providers
    /\ \A c \in DOMAIN handlers :
            NeededBy(handlers[c], 2) \subseteq DOMAIN providers
    /\ \A e \in DOMAIN listeners : \A j \in 1..Len(listeners[e]) :
            NeededBy(listeners[e][j], 2) \subseteq DOMAIN providers

\* a provider with a capability-set parameter and a handler with a
\* dependency are registered, and the last call was rejected for a forward
\* reference
C19_Witness ==
    /\ \E t \in DOMAIN providers : providers[t].fn = "provideDeps"
    /\ \E c \in DOMAIN handlers : NeededBy(handlers[c], 2) # {}
    /\ ForwardReferenceRejected

\* f has a parameter of the capability type it returns
SameTypeDependency(f) ==
    /\ validateProviderSignature(f) = NoErr
    /\ \E i \in 0..(NumIn(f) - 1) : In(f, i) = Out(f, 0)

\* no provider of the registry has a parameter of the type it returns,
\* and when the last call passed such a provider it was rejected
SameTypeRejected ==
    /\ \A t \in DOMAIN providers : ~SameTypeDependency(providers[t].fn)
    /\ call[1].op \in {"Provide", "ProvideSingleton"} /\ SameTypeDependency(call[1].fn)
            => call[1].result # NoErr /\ status[1] = "panicked"

\* a call that passes such a provider leaves the providers as they were
SameTypeLeavesRegistry ==
    call'[1].op \in {"Provide", "ProvideSingleton"} /\ SameTypeDependency(call'[1].fn)
        => providers' = providers

\* C20: Provide and ProvideSingleton reject a provider that has a parameter
\* of the capability type it returns, and the registry is left as it was,
\* without that provider.
C20_SameTypeRejected == []SameTypeRejected /\ [][SameTypeLeavesRegistry]_vars

\* the provider of the same type was rejected for that reason, after the
\* type of its parameter had got a provider, which is still the one
\* registered
C20_Witness ==
    /\ call[1].fn \in {"provideSameType", "provideSameTypeSecond"}
    /\ call[1].result = Errorf("provider function has a dependency of the same type", "")
    /\ "SetIntService" \in DOMAIN providers
    /\ providers["SetIntService"].fn = "provideSetInt"

\* ------------------------------------------------------------------------
\* The dependency graph of the registry

\* the capability types the provider of t asks for: its parameters and the
\* fields of its capability-set parameters
DirectDeps(t) == NeededBy(providers[t].fn, 0)

\* the types reached from the types S in at most n more steps from a type
\* to what its provider asks for
RECURSIVE DepsWithin(_, _)
DepsWithin(S, n) ==
    IF n = 0 THEN S
    ELSE DepsWithin(S \cup UNION { DirectDeps(u) : u \in S \cap DOMAIN providers }, n - 1)

\* what the provider of t depends on, directly or through other providers
TransitiveDeps(t) == DepsWithin(DirectDeps(t), Cardinality(InterfaceTypes))

\* C21: after any sequence of registration calls no provider depends,
\* directly or through other providers, on the capability type it produces.
C21_NoCycles ==
    \A t \in DOMAIN providers : t \notin TransitiveDeps(t)

\* the provider of t has a context.Context parameter
TakesContext(t) ==
    \E i \in 0..(NumIn(providers[t].fn) - 1) : In(providers[t].fn, i) = typeContext

\* C22: after any sequence of registration calls no singleton provider
\* takes a context, and none depends, directly or through any chain of
\* providers and capability sets, on a provider that takes a context.
C22_SingletonsWithoutContext ==
    \A t \in SingletonTypes :
        /\ ~TakesContext(t)
        /\ \A u \in TransitiveDeps(t) \cap DOMAIN providers : ~TakesContext(u)

\* ------------------------------------------------------------------------
\* The rejection surface of the registration calls

\* a capability set: a struct whose fields are all exported and of
\* interface types
CapabilitySet(t) ==
    /\ Kind(t) = "Struct"
    /\ \A k \in 1..Len(VisibleFields(t)) :
            VisibleFields(t)[k].exported /\ Kind(VisibleFields(t)[k].type) = "Interface"

\* function f has a parameter that is neither the context, the bus, a
\* capability nor a capability set
HasInvalidParameter(f) ==
    /\ Funcs[f].kind = "Func"
    /\ \E i \in 0..(NumIn(f) - 1) :
            ~(\/ In(f, i) = typeContext
              \/ In(f, i) = typeVan
              \/ Kind(In(f, i)) = "Interface"
              \/ CapabilitySet(In(f, i)))

\* the last call of the main thread passed a provider
ProviderCall(c) == c.op \in {"Provide", "ProvideSingleton"}

\* no provider of the registry has an invalid parameter, and when the last
\* call passed a provider with one it panicked
InvalidParameterRejected ==
    /\ \A t \in DOMAIN providers : ~HasInvalidParameter(providers[t].fn)
    /\ ProviderCall(call[1]) /\ HasInvalidParameter(call[1].fn)
            => call[1].result # NoErr /\ status[1] = "panicked"

\* a call that passes such a provider leaves the registries as they were
InvalidParameterLeavesRegistry ==
    ProviderCall(call'[1]) /\ HasInvalidParameter(call'[1].fn)
        => providers' = providers /\ handlers' = handlers /\ listeners' = listeners

\* C24: Provide and ProvideSingleton panic for every provider that has a
\* parameter that is neither the context, the bus, a capability nor a
\* capability set of exported capability fields, and register nothing; the
\* rejection is the outcome of the registration call itself.
C24_InvalidParameterRejected ==
    []InvalidParameterRejected /\ [][InvalidParameterLeavesRegistry]_vars

\* a provider with a struct parameter whose field is not exported was
\* rejected for that field, although the type of the field has a provider
C24_Witness ==
    /\ ProviderCall(call[1])
    /\ call[1].fn = "provideUnexported"
    /\ status[1] = "panicked"
    /\ ErrorsIs(call[1].result, Errorf("field must be exported", "s"))
    /\ "SetIntService" \in DOMAIN providers

\* C25: a Handle call for a command type that already has a handler
\* panics, and the handler registered first stays.
C25_SecondHandlerRejected ==
    [][\A c \in DOMAIN handlers :
            (call'[1].op = "Handle" /\ call'[1].id # call[1].id /\ TypeOf(call'[1].cmd) = c)
            => status'[1] = "panicked" /\ handlers'[c] = handlers[c]]_vars

\* a struct with a field for the bus, every other field an exported
\* capability that has a provider
BusDependencySet(t) ==
    /\ Kind(t) = "Struct"
    /\ \E k \in 1..Len(VisibleFields(t)) : VisibleFields(t)[k].type = typeVan
    /\ \A k \in 1..Len(VisibleFields(t)) :
            /\ VisibleFields(t)[k].exported
            /\ \/ VisibleFields(t)[k].type = typeVan
               \/ /\ Kind(VisibleFields(t)[k].type) = "Interface"
                  /\ VisibleFields(t)[k].type \in DOMAIN providers

\* the last call passed a handler or listener for the type it was
\* registered with, whose only dependency is such a struct
TakesBusDependencySet(c) ==
    /\ c.op \in {"Handle", "Subscribe"}
    /\ Funcs[c.fn].kind = "Func"
    /\ NumIn(c.fn) = 3
    /\ In(c.fn, 0) = typeContext
    /\ IF c.op = "Handle"
       THEN /\ isStructPtr(In(c.fn, 1))
            /\ Elem(In(c.fn, 1)) = TypeOf(c.cmd)
            /\ Funcs[c.fn].out = << typeError >>
       ELSE /\ In(c.fn, 1) = TypeOf(c.cmd)
            /\ Kind(In(c.fn, 1)) = "Struct"
            /\ Funcs[c.fn].out = << >>
    /\ BusDependencySet(In(c.fn, 2))

\* C28: a handler or listener that takes a dependency struct with a field
\* for the bus next to capability fields is accepted at registration.
C28_BusFieldAccepted ==
    TakesBusDependencySet(call[1]) => status[1] = "returned" /\ call[1].result = NoErr

\* ------------------------------------------------------------------------
\* Resolution at call time

\* C23: no resolution meets a parameter it cannot bind: b.new is never
\* asked for a type without a provider, for any parameter of a provider,
\* handler or listener that was accepted at registration or of a function
\* that Exec has validated.
C23_EveryParameterBound ==
    \A x \in Tasks : EventsOf(x, "panic") = {}


\* the events of kind ev that the function of task x's call is named in
OwnEvents(x, ev) == { k \in EventsOf(x, ev) : call[x].log[k].fn = call[x].fn }

\* C26: an Exec never panics; when its function's signature is malformed or
\* a dependency has no provider it returns that error and has called
\* neither the function nor a provider; otherwise, unless a provider
\* failed, it has called the function once, after every provider it
\* called, and returns what the function returned.
C26_ExecValidatesThenCalls ==
    \A x \in Threads :
        call[x].op = "Exec" =>
            /\ status[x] # "panicked"
            /\ (status[x] = "returned" /\ Funcs[call[x].fn].kind # "Nil") =>
                    IF execError(call[x].fn) # NoErr
                    THEN /\ call[x].result = execError(call[x].fn)
                         /\ call[x].log = << >>
                    ELSE \/ /\ \E k \in EventsOf(x, "provider") : call[x].log[k].out = "err"
                            /\ OwnEvents(x, "call") = {}
                            /\ call[x].result # NoErr
                         \/ /\ \A k \in EventsOf(x, "provider") : call[x].log[k].out = "ok"
                            /\ Cardinality(OwnEvents(x, "call")) = 1
                            /\ \A k \in EventsOf(x, "provider") :
                                    \A c \in OwnEvents(x, "call") : k < c
                            /\ call[x].log[Len(call[x].log)].ev = "return"
                            /\ call[x].result =
                                    IF call[x].log[Len(call[x].log)].out = "err"
                                    THEN handlerError ELSE NoErr


\* the capability sets that the k-th event of task x, a call, passed
SetsPassed(x, k) ==
    { j \in 1..Len(call[x].log[k].args) : CapabilitySet(call[x].log[k].args[j].type) }

\* the provider of t's executions for task x's call logged at k: those
\* since the call before it
ExecutionsFor(x, k, t) ==
    { p \in EventsOf(x, "provider") :
        /\ p < k
        /\ call[x].log[p].fn = t
        /\ \A c \in EventsOf(x, "call") : c < k => c < p }

\* the instances behind the fields of type t of the capability sets that
\* the k-th event of task x passed
FieldInstances(x, k, t) ==
    UNION { { call[x].log[k].args[j].data[f] :
                f \in { i \in 1..Len(VisibleFields(call[x].log[k].args[j].type)) :
                            VisibleFields(call[x].log[k].args[j].type)[i].type = t } } :
            j \in SetsPassed(x, k) }

\* C27: a capability set that a function is called with has every field
\* filled with an instance of the field's capability type; a singleton
\* field holds the cached instance; for a field of a regular capability
\* the provider ran once, without error, for this call, and no other call
\* was given the instance it made.
C27_FreshCapabilitySet ==
    \A x \in Tasks : \A k \in EventsOf(x, "call") :
        /\ \A j \in SetsPassed(x, k) :
            LET v == call[x].log[k].args[j]
                fields == VisibleFields(v.type)
            IN /\ Len(v.data) = Len(fields)
               /\ \A f \in 1..Len(fields) :
                    /\ v.data[f].type = fields[f].type
                    /\ fields[f].type \in DOMAIN providers
                    /\ IF providers[fields[f].type].singleton
                       THEN /\ v.data[f] # NilValue
                            /\ v.data[f] = providers[fields[f].type].instance
                       ELSE /\ Cardinality(ExecutionsFor(x, k, fields[f].type)) = 1
                            /\ \A p \in ExecutionsFor(x, k, fields[f].type) :
                                    call[x].log[p].out = "ok"
                            /\ v.data[f].ref \in returned[fields[f].type]
        /\ \A t \in DOMAIN providers \ SingletonTypes :
            \A y \in Tasks : \A m \in EventsOf(y, "call") :
                (<< x, k >> # << y, m >>) =>
                    FieldInstances(x, k, t) \cap FieldInstances(y, m, t) = {}

\* a handler and the function of an Exec were each called with a
\* capability set: the regular capability behind the first field was made
\* for each of them, the singleton behind the second is the same instance
C27_Witness ==
    \E x, y \in Threads :
        /\ call[x].op = "Invoke" /\ call[y].op = "Exec"
        /\ \E k \in EventsOf(x, "call") : \E m \in EventsOf(y, "call") :
            /\ SetsPassed(x, k) = {3} /\ SetsPassed(y, m) = {1}
            /\ call[x].log[k].args[3].data[1].ref # call[y].log[m].args[1].data[1].ref
            /\ call[x].log[k].args[3].data[2] = call[y].log[m].args[1].data[2]
            /\ providers[call[x].log[k].args[3].data[2].type].singleton
            /\ ~providers[call[x].log[k].args[3].data[1].type].singleton


\* the goroutines that deliver a publication
Deliveries == { g \in Tasks : call[g].op = "processEvent" }

\* C29: whatever the listeners of a publication did to their event
\* argument, every listener of it was called with the event as it was
\* published, and the value the delivery holds stays that event.
C29_EventsImmutable ==
    \A g \in Deliveries :
        /\ \A k \in 1..Len(stack[g]) :
                stack[g][k].op = "processEvent" => stack[g][k].cmd = call[g].cmd
        /\ \A k \in EventsOf(g, "call") :
                /\ \E j \in 1..Len(call[g].log[k].args) :
                        call[g].log[k].args[j].type = TypeOf(call[g].cmd)
                /\ \A j \in 1..Len(call[g].log[k].args) :
                        call[g].log[k].args[j].type = TypeOf(call[g].cmd) =>
                            call[g].log[k].args[j] = call[g].cmd

\* a listener that assigns to a field of its event has returned, and the
\* next listener of the publication was called with the published event
C29_Witness ==
    \E g \in Deliveries :
        \E k \in EventsOf(g, "return") :
            /\ Funcs[call[g].log[k].fn].effect = "write"
            /\ k + 1 \in EventsOf(g, "call")
            /\ call[g].log[k + 1].fn # call[g].log[k].fn
            /\ call[g].log[k + 1].args[2] = call[g].cmd
            /\ call[g].cmd.data # << 0 >>


\* the registration of capability type t: what Provide or ProvideSingleton
\* wrote, without the cache slot and its lock
Registration(p) ==
    [fn |-> p.fn, singleton |-> p.singleton, takesContext |-> p.takesContext]

\* C30: no step of Invoke, Exec, Publish, Wait or of the delivery of an
\* event changes which handlers, listeners and providers are registered,
\* nor what is registered for a type; of a provider's entry only the cache
\* slot of a singleton and its lock change.
C30_RegistriesReadOnly ==
    [][/\ handlers' = handlers
       /\ listeners' = listeners
       /\ DOMAIN providers' = DOMAIN providers
       /\ \A t \in DOMAIN providers :
            /\ Registration(providers'[t]) = Registration(providers[t])
            /\ ~providers[t].singleton => providers'[t] = providers[t]]_vars

\* a singleton has been built and cached for a caller of Invoke or Exec
\* that has returned, while a publication is in flight, counted, and its
\* delivery has called a listener
C30_Witness ==
    /\ \E t \in SingletonTypes : providers[t].instance # NilValue
    /\ wg > 0
    /\ \E g \in Deliveries : status[g] = "running" /\ EventsOf(g, "call") # {}
    /\ \E x \in Threads :
        /\ Returned(x, "Invoke") \/ Returned(x, "Exec")
        /\ EventsOf(x, "return") # {}
        /\ \E k \in EventsOf(x, "provider") : call[x].log[k].fn \in SingletonTypes

\* ------------------------------------------------------------------------
\* The argument pool (argPool): get, the caller's writes, put

\* the capacities the callers ask for: none, a few arguments, a full
\* buffer, and more than a buffer holds
Caps == {0, 1, 2, poolItemSize, poolItemSize + 1}

\* the dependency value thread self puts in its arguments
depOf(self) == Val("dep", self, << >>)

\* buf[:n] of the slice behind bufptr: the first n cells of its backing
\* array, whatever the length of the slice is
reslice(bufptr, n) == SubSeq(bufs[bufptr].array, 1, n)

\* the slice thread self got from get, as it is now
bufOf(self) ==
    IF local[self].bufptr = 0 THEN local[self].own
    ELSE reslice(local[self].bufptr, local[self].n)

\* argPool.zero(buf): the cells within the length of the slice are emptied
zero(b) == [b EXCEPT !.array = [i \in DOMAIN @ |-> IF i <= b.len THEN emptyValue ELSE @[i]]]

\* argPool.get(cap)
Get(self, cap) ==
    /\ ops < MaxOps
    /\ local[self].pc = "idle"
    /\ ops' = ops + 1
    /\ IF cap > pool.itemSize
       THEN /\ local' = [local EXCEPT ![self] =
                    [pc |-> "held", bufptr |-> 0, n |-> cap,
                     own |-> makeValues(cap), got |-> makeValues(cap)]]
            /\ UNCHANGED << pool, bufs >>
       ELSE IF pool.freeList # << >>
       THEN LET bufptr == Head(pool.freeList) IN
            /\ pool' = [pool EXCEPT !.freeList = Tail(@), !.inuse = @ + 1]
            /\ local' = [local EXCEPT ![self] =
                    [pc |-> "held", bufptr |-> bufptr, n |-> cap,
                     own |-> << >>, got |-> reslice(bufptr, cap)]]
            /\ UNCHANGED bufs
       ELSE LET bufptr == Len(bufs) + 1 IN
            /\ bufs' = Append(bufs, [len |-> 0, array |-> makeValues(pool.itemSize)])
            /\ pool' = [pool EXCEPT !.allocated = @ + 1, !.inuse = @ + 1]
            /\ local' = [local EXCEPT ![self] =
                    [pc |-> "held", bufptr |-> bufptr, n |-> cap,
                     own |-> << >>, got |-> makeValues(cap)]]
    /\ UNCHANGED << providers, handlers, listeners, wg, heap, status, stack, ret,
                    call, execs, fails, returned, invoked >>

\* the caller fills its slice, one argument after the other
Store(self) ==
    /\ local[self].pc = "held"
    /\ \E i \in 1..local[self].n :
            /\ bufOf(self)[i] # depOf(self)
            /\ \A j \in 1..(i - 1) : bufOf(self)[j] = depOf(self)
            /\ IF local[self].bufptr = 0
               THEN /\ local' = [local EXCEPT ![self].own[i] = depOf(self)]
                    /\ UNCHANGED bufs
               ELSE /\ bufs' = [bufs EXCEPT ![local[self].bufptr].array[i] = depOf(self)]
                    /\ UNCHANGED local
    /\ UNCHANGED << providers, handlers, listeners, wg, heap, status, stack, ret,
                    call, ops, execs, fails, returned, invoked, pool >>

\* argPool.put(bufptr)
Put(self) ==
    /\ local[self].pc = "held"
    /\ LET bufptr == local[self].bufptr IN
       IF bufptr # 0
       THEN /\ bufs' = [bufs EXCEPT ![bufptr] = zero(@)]
            /\ pool' = IF Len(pool.freeList) < poolSize
                       THEN [pool EXCEPT !.freeList = Append(@, bufptr), !.inuse = @ - 1]
                       ELSE [pool EXCEPT !.allocated = @ - 1, !.inuse = @ - 1]
       ELSE UNCHANGED << pool, bufs >>
    /\ local' = [local EXCEPT ![self] = NoBuf]
    /\ UNCHANGED << providers, handlers, listeners, wg, heap, status, stack, ret,
                    call, ops, execs, fails, returned, invoked >>

\* the pool of a bus nothing is registered in
InitP == InitReg

NextP ==
    \/ \E self \in Threads : \E cap \in Caps : Get(self, cap)
    \/ \E self \in Threads : Store(self)
    \/ \E self \in Threads : Put(self)

SpecP == InitP /\ [][NextP]_vars

\* ------------------------------------------------------------------------
\* The singleton lifecycle

\* nothing has been executed: no constructor, handler or listener
NothingExecuted ==
    /\ \A t \in CapTypes : execs[t] = 0 /\ fails[t] = 0 /\ returned[t] = {}
    /\ \A f \in FuncNames : invoked[f] = 0
    /\ \A x \in Tasks : call[x].log = << >>
    /\ \A g \in Goroutines : status[g] = "unborn"
    /\ wg = 0

\* task x is in newSingleton for type t, within an Invoke, an Exec or the
\* delivery of an event
Resolving(x, t) ==
    /\ status[x] = "running"
    /\ call[x].op \in {"Invoke", "Exec", "processEvent"}
    /\ stack[x] # << >>
    /\ Top(x).op = "newSingleton"
    /\ Top(x).fn = t

\* C31: when the registration calls are over and no operation has started,
\* nothing has been executed and every singleton's slot is empty; a
\* singleton's constructor starts only in a step of a task that resolves
\* the singleton's type in newSingleton, and a slot is filled only when
\* an execution of the constructor has succeeded.
C31_LazySingletons ==
    /\ [](ops = 0 =>
            /\ NothingExecuted
            /\ \A t \in DOMAIN providers : providers[t].instance = NilValue)
    /\ [](\A t \in SingletonTypes :
            providers[t].instance # NilValue => execs[t] > fails[t])
    /\ [][\A t \in SingletonTypes :
            execs'[t] # execs[t] =>
                /\ execs'[t] = execs[t] + 1
                /\ \E x \in Tasks : Resolving(x, t)]_vars

\* an operation that does not need the singleton has come and gone with
\* the slot still empty, and the constructor runs for the first time in
\* the second operation, which needs it
C31_Witness ==
    \E t \in SingletonTypes : \E x \in Threads :
        /\ Resolving(x, t)
        /\ Top(x).pc = "incall"
        /\ call[x].id = 2
        /\ execs[t] = 1
        /\ providers[t].instance = NilValue

\* the executions of the constructor of type t that have not returned:
\* the serial numbers in the frames of the tasks that are in provider.call
Executing(t) ==
    UNION { { stack[x][k].i : k \in { j \in 1..Len(stack[x]) :
                                        /\ stack[x][j].op \in {"new", "newSingleton"}
                                        /\ stack[x][j].fn = t
                                        /\ stack[x][j].pc = "incall" } } :
            x \in Tasks }

\* the instances of type t that the tasks hold: what a call returned to
\* them last, and the arguments they have bound
Held(t) ==
    UNION { { v \in ({ret[x].val}
                     \cup { ret[x].args[j] : j \in 1..Len(ret[x].args) }
                     \cup UNION { { stack[x][k].args[j] : j \in 1..Len(stack[x][k].args) } :
                                  k \in 1..Len(stack[x]) }) : v.type = t } :
            x \in Tasks }

\* C32: a singleton's slot is filled only with the instance of an execution
\* of its constructor that has returned without error; a filled slot never
\* changes; and the instances of the type that callers hold are the slot's
\* instance, never that of an execution still in progress.
C32_SlotSetOnce ==
    /\ [](\A t \in SingletonTypes :
            /\ providers[t].instance # NilValue =>
                    /\ providers[t].instance.type = t
                    /\ providers[t].instance.ref \in 1..execs[t]
                    /\ providers[t].instance.ref \notin Executing(t)
                    /\ providers[t].instance.ref \in returned[t]
                    /\ execs[t] > fails[t]
            /\ \A v \in Held(t) :
                    /\ v = providers[t].instance
                    /\ v.ref \notin Executing(t))
    /\ [][\A t \in SingletonTypes :
            providers[t].instance # NilValue =>
                providers'[t].instance = providers[t].instance]_vars

\* a singleton's constructor failed for one caller and succeeded for the
\* other: the slot holds the second execution's instance and the second
\* caller's function has been called with it
C32_Witness ==
    \E t \in SingletonTypes : \E x \in Threads :
        /\ fails[t] = 1
        /\ execs[t] = 2
        /\ providers[t].instance = Val(t, 2, << >>)
        /\ \E k \in EventsOf(x, "call") :
                \E j \in 1..Len(call[x].log[k].args) :
                    call[x].log[k].args[j] = providers[t].instance

\* task x is about to take the lock of the provider of type t
AtLock(x, t) ==
    /\ status[x] = "running"
    /\ stack[x] # << >>
    /\ Top(x).op = "newSingleton"
    /\ Top(x).pc = "lock"
    /\ Top(x).fn = t

\* task x is about to read the slot of the singleton of type t
AtRead(x, t) ==
    /\ status[x] = "running"
    /\ stack[x] # << >>
    /\ Top(x).op = "new"
    /\ Top(x).pc = "entry"
    /\ Top(x).fn = t

\* task x executes the constructor of the singleton of type t
Constructing(x, t) ==
    \E k \in 1..Len(stack[x]) :
        /\ stack[x][k].op = "newSingleton"
        /\ stack[x][k].fn = t
        /\ stack[x][k].pc = "incall"

\* C33: a task that reads a singleton's slot or takes its lock waits for
\* the lock of that singleton only: whichever other singletons are being
\* constructed, it takes its step as soon as no task holds the lock of the
\* type it resolves.
C33_OwnLockOnly ==
    \A x \in Tasks : \A t \in SingletonTypes :
        /\ (AtLock(x, t) /\ providers[t].lock = 0) => ENABLED NewSingleton(x)
        /\ (AtRead(x, t) /\ providers[t].lock = 0) => ENABLED New(x)

\* two threads execute the constructors of two singletons at the same
\* time, each holding the lock of its own
C33_Witness ==
    \E x, y \in Threads : \E t, u \in SingletonTypes :
        /\ x # y /\ t # u
        /\ Constructing(x, t) /\ providers[t].lock = x
        /\ Constructing(y, u) /\ providers[u].lock = y

\* the tasks that execute the constructor of the singleton of type t
Constructors(t) == { x \in Tasks : Constructing(x, t) }

\* C34: at no time do two tasks execute the constructor of one singleton,
\* nor one task twice; the task that executes it holds the singleton's
\* lock, also when it runs the constructor again after a failure that
\* another task had.
C34_OneConstructorAtATime ==
    \A t \in SingletonTypes :
        /\ Cardinality(Constructors(t)) <= 1
        /\ Cardinality(Executing(t)) <= 1
        /\ \A x \in Constructors(t) : providers[t].lock = x

\* the constructor failed for one thread, whose call has returned the
\* error, and another thread, holding the lock, executes it again
C34_Witness ==
    \E t \in SingletonTypes : \E x, y \in Threads :
        /\ x # y
        /\ fails[t] = 1
        /\ status[x] = "returned" /\ call[x].result # NoErr
        /\ Constructing(y, t)
        /\ Executing(t) = {2}
        /\ providers[t].lock = y

\* C35: every Invoke and Exec that has started returns, whichever
\* singletons it and the concurrent calls resolve.
C35_ResolutionsReturn ==
    \A x \in Threads : [](status[x] = "running" => <>(status[x] # "running"))

\* ------------------------------------------------------------------------
\* Registration calls that fail

\* the step is a registration call that panics
FailedCall == call'[1].id # call[1].id /\ status'[1] = "panicked"

\* the listeners the call of the step registered before it panicked
RegisteredByCall ==
    [k \in 1..Cardinality({ j \in 1..Len(call'[1].log) : call'[1].log[j].ev = "registered" })
        |-> call'[1].log[k].fn]

\* the listeners of the event of the call of the step, before the call
ListenersBefore ==
    IF TypeOf(call'[1].cmd) \in DOMAIN listeners
    THEN listeners[TypeOf(call'[1].cmd)] ELSE << >>

\* C36 as stated: a registration call that panics leaves the provider,
\* handler and listener registries as they were.
C36_FailedCallChangesNothing ==
    [][FailedCall =>
            /\ providers' = providers
            /\ handlers' = handlers
            /\ listeners' = listeners]_vars

\* C36, amended: a Provide, ProvideSingleton or Handle that panics leaves
\* the three registries as they were; a Subscribe that panics leaves the
\* providers and handlers as they were and has added, to the listeners of
\* its event only, the listeners that precede the rejected one, in the
\* order it was passed them: all of them when there is no such listener.
C36_FailedCallKeepsEarlierListeners ==
    [][FailedCall =>
            /\ providers' = providers
            /\ handlers' = handlers
            /\ call'[1].op # "Subscribe" => listeners' = listeners
            /\ call'[1].op = "Subscribe" =>
                /\ call'[1].log[Len(call'[1].log)].ev = "rejected"
                /\ \A j \in 1..(Len(call'[1].log) - 1) : call'[1].log[j].ev = "registered"
                /\ \A e \in DOMAIN listeners :
                        e # TypeOf(call'[1].cmd) =>
                            e \in DOMAIN listeners' /\ listeners'[e] = listeners[e]
                /\ RegisteredByCall = << >> => listeners' = listeners
                /\ RegisteredByCall # << >> =>
                        /\ DOMAIN listeners' = DOMAIN listeners \cup {TypeOf(call'[1].cmd)}
                        /\ listeners'[TypeOf(call'[1].cmd)] =
                                ListenersBefore \o RegisteredByCall]_vars

\* a Subscribe with two listeners has panicked for the second, and the
\* first is registered
C36_Witness ==
    /\ call[1].op = "Subscribe"
    /\ status[1] = "panicked"
    /\ Len(call[1].log) = 2
    /\ call[1].log[1].ev = "registered"
    /\ call[1].log[2].ev = "rejected"
    /\ TypeOf(call[1].cmd) \in DOMAIN listeners
    /\ listeners[TypeOf(call[1].cmd)][Len(listeners[TypeOf(call[1].cmd)])] = call[1].log[1].fn

\* ------------------------------------------------------------------------
\* The context of a call

\* the contexts among the arguments logged with the k-th event of task x
ContextsAt(x, k) ==
    { call[x].log[k].args[j] :
        j \in { i \in 1..Len(call[x].log[k].args) :
                    call[x].log[k].args[i].type = typeContext } }

\* the contexts that the providers and the function of task x's call were
\* called with
ContextsIn(x) == UNION { ContextsAt(x, k) : k \in 1..Len(call[x].log) }

\* C37: the handler of an Invoke, the function of an Exec and every
\* provider executed for the call are called with no other context than
\* the one the caller passed to Invoke or Exec, and a handler is called
\* with it.
C37_OwnContext ==
    \A x \in Threads :
        call[x].op \in {"Invoke", "Exec"} =>
            /\ ContextsIn(x) \subseteq {ctxOf(x)}
            /\ \A k \in OwnEvents(x, "call") :
                    call[x].op = "Invoke" => call[x].log[k].args[1] = ctxOf(x)

\* two threads with contexts of their own are in calls at the same time;
\* for each a provider that takes the context has been executed, with the
\* caller's context
C37_Witness ==
    \E x, y \in Threads :
        /\ x # y /\ ctxOf(x) # ctxOf(y)
        /\ status[x] = "running" /\ status[y] = "running"
        /\ \E k \in EventsOf(x, "provider") : ContextsAt(x, k) = {ctxOf(x)}
        /\ \E k \in EventsOf(y, "provider") : ContextsAt(y, k) = {ctxOf(y)}
\* ------------------------------------------------------------------------
\* The buffers of the argument pool

\* C38: a buffer handed out by the argument pool contains only empty
\* values: what a previous user stored in it was erased when the buffer was
\* returned with put, so that a reused buffer never carries the dependency
\* values of an earlier call
C38_BuffersHandedOutEmpty ==
    \A t \in Threads :
        local[t].pc = "held" =>
            \A i \in 1..Len(local[t].got) : local[t].got[i] = emptyValue

====
